---- MODULE Spec2Model ----
(***************************************************************************)
(* Talkpoint lifecycle of the CodeTalk VS Code extension                   *)
(* (src/VisualStudioCode/src/controllers/codeTalkController.ts).           *)
(*                                                                         *)
(* The controller keeps a Map breakpoint id -> talkpoint (_talkPoints),    *)
(* a guard _breakpointsLoaded, and writes the Map's entries to the         *)
(* workspace storage on every 'talkpoints.changed' signal.  The live       *)
(* breakpoint set is vscode.debug.breakpoints.  The extension host fires   *)
(* onDidChangeBreakpoints synchronously whenever that set changes, also    *)
(* from inside vscode.debug.addBreakpoints / removeBreakpoints, so every   *)
(* action below is one callback turn including the nested notification.   *)
(***************************************************************************)
EXTENDS Integers, Sequences, FiniteSets, TLC

\* ---------------------------------------------------------------- bounds
\* editor lines are 0 .. MaxLine
MaxLine == 1
\* talkpoints persisted by an earlier session (their ids are 1 .. MaxStale)
MaxStale == 2
\* breakpoints constructed in this session (ids MaxStale+1 .. MaxStale+MaxNew)
MaxNew == 2
\* talkpoint-creation flows that may be open at the same time
MaxFlows == 2
\* breakpoints carried by one externally caused "added" notification
MaxAdded == 2
\* live breakpoints when a debug session delivers messages
MaxLive == 2
\* lines appended to the output channel before a new stop is followed
MaxLogged == 1
\* entries of a Store that is saved and loaded again
MaxSaved == 2
\* errorDetectionInterval, in ticks of the clock
Interval == 2
\* ticks of the clock
MaxClock == 5
\* onDidChangeDiagnostics events
MaxEvents == 3
\* diagnostics of the active document
MaxDiagnostics == 1
\* the wait of the debounced loadSettings (2000 ms), in ticks of the clock
SettingsWait == 2
\* runs of loadSettings suspended in a load at the same time
MaxLoads == 2

Paths == {"/a.py", "/b.py"}
Lines == 0..MaxLine

\* ------------------------------------------------- Map<string, ITalkpoint>
\* A JavaScript Map is a sequence of [key, value] entries in insertion
\* order with unique keys.
MapKeys(m) == {m[i].key : i \in 1..Len(m)}

MapHas(m, k) == k \in MapKeys(m)

MapGet(m, k) == (CHOOSE i \in 1..Len(m) : m[i].key = k)

MapValue(m, k) == m[MapGet(m, k)].value

\* Map.prototype.set: an existing key keeps its position
MapSet(m, k, v) ==
    IF MapHas(m, k)
    THEN [i \in 1..Len(m) |-> IF m[i].key = k THEN [key |-> k, value |-> v] ELSE m[i]]
    ELSE Append(m, [key |-> k, value |-> v])

MapDelete(m, k) == SelectSeq(m, LAMBDA e : e.key # k)

MapSize(m) == Len(m)

\* ----------------------------------------------------------- data model
\* result of a completed creation flow (ITalkpointCreationState)
CreationStates ==
    { [type |-> "Tonal", sound |-> "Default", text |-> "undefined",
       expression |-> "undefined", shouldContinue |-> TRUE],
      [type |-> "Text", sound |-> "undefined", text |-> "hello",
       expression |-> "undefined", shouldContinue |-> FALSE] }

\* an object literal that ignores the chosen shouldContinue
MakeTalkpointStopping(state, path, line, id) ==
    [type |-> state.type, text |-> state.text, expression |-> state.expression,
     sound |-> state.sound, position |-> line, uri |-> path,
     breakpointId |-> id, shouldContinue |-> FALSE]

\* the object literal of createTalkpoint
MakeTalkpoint(state, path, line, id) ==
    [type |-> state.type, text |-> state.text, expression |-> state.expression,
     sound |-> state.sound, position |-> line, uri |-> path,
     breakpointId |-> id, shouldContinue |-> state.shouldContinue]

\* vscode.SourceBreakpoint: identity and location
MakeBreakpoint(id, path, line) == [id |-> id, path |-> path, line |-> line]

\* the stable join key talkpoint.uri.path + ';' + talkpoint.position.line
FileLineOfTalkpoint(t) == <<t.uri, t.position>>

\* sourceBreakpoint.location.uri.path + ';' + location.range.start.line
FileLineOfBreakpoint(b) == <<b.path, b.line>>


Locations == Paths \X Lines

BreakpointIds(bps) == {bps[i].id : i \in 1..Len(bps)}

\* --------------------------------------------------------------- state
VARIABLES
    talkPoints,         \* this._talkPoints
    breakpointsLoaded,  \* this._breakpointsLoaded
    workspaceState,     \* this._context.workspaceState.get('talkpoints')
    breakpoints,        \* vscode.debug.breakpoints, in the host's order
    nextId,             \* next identity the host gives a constructed breakpoint
    flows,              \* createTalkpoint calls suspended in showTalkpointCreationSteps
    lastOp,             \* the callback that ran in the last turn, with its arguments
    before,             \* the controller state when the last turn began
    committed,          \* ids whose Map entry was set by createTalkpoint in this session
    messages,           \* vscode.window.show*Message calls of the last turn
    emitted,            \* 'talkpoints.changed' signals emitted in the last turn
    removeRequested,    \* arguments of the vscode.debug.removeBreakpoints calls of the last turn
    joined,             \* the join of loadInitialTalkpoints ran in the last turn
    joins,              \* how often the join has run in this session (capped at 2)
    plainHosts,         \* ids of live breakpoints that were live without a talkpoint
                        \* when createTalkpoint set their talkpoint
    toggles,            \* per location: add-talkpoint invocations completed one after
                        \* the other since the location last had no talkpoint, no open
                        \* flow and saw another breakpoint change; -1 when none such
    message,            \* m of the onDidSendMessage call that was the last step
                        \* (NoMessage after any other step)
    stopped,            \* the stopped event whose handler is under way or ended last
    pc,                 \* where that handler is
    currentFrame,       \* stack.stackFrames[0]
    sourceBreakpoints,  \* vscode.debug.breakpoints as read after the stackTrace response
    debugLines,         \* per source breakpoint: the line of its debug protocol breakpoint
    matchedBreakpoints, \* the result of asyncFilter
    dispatched,         \* the matched breakpoints found in the Map, with their talkpoint
    evaluating,         \* evaluate requests without a response yet
    session,            \* requests to the session and feedback given, in order, for
                        \* the last stopped event
    outputChannel,      \* lines of the "Code Talk" output channel
    storage,            \* the workspace storage file: what the host has written of
                        \* the 'talkpoints' value, as JSON
    disposed,           \* "no" until deactivate has disposed the output channel;
                        \* then what the host does with a call on the closed
                        \* channel: "ignoring" it or "throwing"
    clock,              \* the time, in ticks
    debounced,          \* the closure of debounce around the diagnostics listener:
                        \* timeout (when the timer is due, 0 for none), previous
                        \* (time of the last call), args (event of the last call)
    arrivals,           \* the onDidChangeDiagnostics events fired: when, and whether
                        \* e.uris holds the uri of the active editor
    processed,          \* the calls of the listener: which event, when
    diagnostics,        \* vscode.languages.getDiagnostics(uri).length, active document
    previousDiagnostics, \* this._previousDiagnostics.length
    played,             \* play(this._errorSoundBuffer) calls
    enableErrorDetection, \* this._errorSettings.enableErrorDetection
    multiStepInputs,    \* the calls of showTalkpointCreationSteps, each with its
                        \* state, the steps and the current prompt of its
                        \* MultiStepInput
    configuration,      \* vscode.workspace.getConfiguration('codeTalk')
    errorSettings,      \* this._errorSettings
    talkPointSettings,  \* this._talkPointSettings
    errorSoundBuffer,   \* this._errorSoundBuffer: the file it was loaded from
    tonalTalkpointBuffer, \* this._tonalTalkpointBuffer: the file it was loaded from
    loadSettingsDebounced, \* the closure of debounce around loadSettings
    loading,            \* the runs of loadSettings suspended in await load(...)
    activated           \* activate() has registered the commands and listeners

vars == <<talkPoints, breakpointsLoaded, workspaceState, breakpoints, nextId, flows,
          lastOp, before, committed, messages, emitted, removeRequested, joined, joins,
          plainHosts, toggles, message, stopped, pc, currentFrame, sourceBreakpoints, debugLines,
          matchedBreakpoints, dispatched, evaluating, session,
          outputChannel, storage, disposed, clock, debounced, arrivals, processed,
          diagnostics, previousDiagnostics, played, enableErrorDetection,
          multiStepInputs, configuration, errorSettings, talkPointSettings,
          errorSoundBuffer, tonalTalkpointBuffer, loadSettingsDebounced, loading,
          activated>>

trackerVars == <<stopped, pc, currentFrame, sourceBreakpoints, debugLines,
                 matchedBreakpoints, dispatched, evaluating, session,
                 outputChannel>>

\* what the handlers of the controller and of the tracker leave alone
diagnosticsVars == <<clock, debounced, arrivals, processed, diagnostics,
                     previousDiagnostics, played, enableErrorDetection>>

menuVars == <<multiStepInputs>>

settingsVars == <<configuration, errorSettings, talkPointSettings, errorSoundBuffer,
                  tonalTalkpointBuffer, loadSettingsDebounced, loading, activated>>

hostVars == <<storage, disposed, diagnosticsVars, menuVars, settingsVars>>

controllerVars == <<talkPoints, breakpointsLoaded, workspaceState, breakpoints, nextId,
                    flows, lastOp, before, committed, messages, emitted, removeRequested,
                    joined, joins, plainHosts, toggles>>

\* The controller part of the state, threaded through the handlers of one turn.
Turn == [talkPoints |-> talkPoints, breakpointsLoaded |-> breakpointsLoaded,
         workspaceState |-> workspaceState, breakpoints |-> breakpoints,
         messages |-> <<>>, emitted |-> 0, removeRequested |-> <<>>,
         joined |-> FALSE, joins |-> joins]

Msg(level, text, n) == [level |-> level, text |-> text, n |-> n]

\* vscode.window.showInformationMessage / showWarningMessage
ShowMessage(st, m) == [st EXCEPT !.messages = Append(@, m)]

\* a listener that does not write
SaveTalkpointsSkipped(st) == st

\* saveTalkpoints: workspaceState.update('talkpoints', [...this._talkPoints.entries()])
SaveTalkpoints(st) == [st EXCEPT !.workspaceState = st.talkPoints]

\* this._internalEvents.emit('talkpoints.changed'): the listener saves (and re-renders)
EmitTalkpointsChanged(st) == [SaveTalkpoints(st) EXCEPT !.emitted = @ + 1]

\* removeTalkpoints that looks at the first breakpoint only
RemoveTalkpointsFirstOnly(st, bps) ==
    IF bps = <<>> THEN st
    ELSE IF MapHas(st.talkPoints, Head(bps).id)
         THEN ShowMessage([st EXCEPT !.talkPoints = MapDelete(@, Head(bps).id)],
                          Msg("info", "Removed talkpoint from line", Head(bps).line + 1))
         ELSE st

\* removeTalkpoints(breakpoints)
RECURSIVE RemoveTalkpoints(_, _)
RemoveTalkpoints(st, bps) ==
    IF bps = <<>> THEN st
    ELSE LET b == Head(bps)
             s1 == IF MapHas(st.talkPoints, b.id)
                   THEN ShowMessage([st EXCEPT !.talkPoints = MapDelete(@, b.id)],
                                    Msg("info", "Removed talkpoint from line", b.line + 1))
                   ELSE st
         IN RemoveTalkpoints(s1, Tail(bps))

\* a reduce in which the first talkpoint of a file;line key wins
TalkpointsByFileLineFirst(m) ==
    [k \in {FileLineOfTalkpoint(m[i].value) : i \in 1..Len(m)} |->
        m[CHOOSE i \in 1..Len(m) :
            /\ FileLineOfTalkpoint(m[i].value) = k
            /\ \A j \in 1..(i - 1) : FileLineOfTalkpoint(m[j].value) # k].value]

\* the reduce of loadInitialTalkpoints: per file;line key the last talkpoint wins
TalkpointsByFileLine(m) ==
    [k \in {FileLineOfTalkpoint(m[i].value) : i \in 1..Len(m)} |->
        m[CHOOSE i \in 1..Len(m) :
            /\ FileLineOfTalkpoint(m[i].value) = k
            /\ \A j \in (i + 1)..Len(m) : FileLineOfTalkpoint(m[j].value) # k].value]

\* The forEach of loadInitialTalkpoints on the cleared Map.  The talkpoint
\* found for a key is one object: every breakpoint of the key writes its id
\* into that object and stores the same object, so each stored entry ends up
\* with the id of the last breakpoint of its key.
JoinBreakpoints(byFileLine, bps) ==
    LET matched == SelectSeq(bps, LAMBDA b : FileLineOfBreakpoint(b) \in DOMAIN byFileLine)
        lastId(k) == bps[CHOOSE i \in 1..Len(bps) :
                        /\ FileLineOfBreakpoint(bps[i]) = k
                        /\ \A j \in (i + 1)..Len(bps) : FileLineOfBreakpoint(bps[j]) # k].id
    IN [i \in 1..Len(matched) |->
          [key |-> matched[i].id,
           value |-> [byFileLine[FileLineOfBreakpoint(matched[i])]
                        EXCEPT !.breakpointId = lastId(FileLineOfBreakpoint(matched[i]))]]]

\* the join without this._talkPoints.clear()
LoadInitialTalkpointsNoClear(st, bps) ==
    IF ~st.breakpointsLoaded
    THEN EmitTalkpointsChanged(
           [st EXCEPT !.talkPoints =
                          SelectSeq(@, LAMBDA e : e.key \notin BreakpointIds(bps))
                          \o JoinBreakpoints(TalkpointsByFileLine(st.talkPoints), bps),
                      !.breakpointsLoaded = TRUE,
                      !.joined = TRUE,
                      !.joins = IF @ < 2 THEN @ + 1 ELSE @])
    ELSE st

\* the join without this._breakpointsLoaded = true
LoadInitialTalkpointsFlagUnset(st, bps) ==
    IF ~st.breakpointsLoaded
    THEN EmitTalkpointsChanged(
           [st EXCEPT !.talkPoints = JoinBreakpoints(TalkpointsByFileLine(st.talkPoints), bps),
                      !.joined = TRUE,
                      !.joins = IF @ < 2 THEN @ + 1 ELSE @])
    ELSE st

\* the join with the flag set only when a talkpoint was re-linked
LoadInitialTalkpointsFlagOnMatch(st, bps) ==
    IF ~st.breakpointsLoaded
    THEN EmitTalkpointsChanged(
           [st EXCEPT !.talkPoints = JoinBreakpoints(TalkpointsByFileLine(st.talkPoints), bps),
                      !.breakpointsLoaded =
                          JoinBreakpoints(TalkpointsByFileLine(st.talkPoints), bps) # <<>>,
                      !.joined = TRUE,
                      !.joins = IF @ < 2 THEN @ + 1 ELSE @])
    ELSE st

\* loadInitialTalkpoints(breakpoints)
LoadInitialTalkpoints(st, bps) ==
    IF ~st.breakpointsLoaded
    THEN EmitTalkpointsChanged(
           [st EXCEPT !.talkPoints = JoinBreakpoints(TalkpointsByFileLine(st.talkPoints), bps),
                      !.breakpointsLoaded = TRUE,
                      !.joined = TRUE,
                      !.joins = IF @ < 2 THEN @ + 1 ELSE @])
    ELSE st

\* a handler without the emit at its end
HandleChangeBreakpointsEventNoEmit(st, added, removed) ==
    LET s1 == IF ~st.breakpointsLoaded /\ Len(added) > 0
              THEN LoadInitialTalkpoints(st, added) ELSE st
    IN IF Len(removed) > 0 THEN RemoveTalkpoints(s1, removed) ELSE s1

\* handleChangeBreakpointsEvent(e)
HandleChangeBreakpointsEvent(st, added, removed) ==
    LET s1 == IF ~st.breakpointsLoaded /\ Len(added) > 0
              THEN LoadInitialTalkpoints(st, added) ELSE st
        s2 == IF Len(removed) > 0 THEN RemoveTalkpoints(s1, removed) ELSE s1
    IN EmitTalkpointsChanged(s2)

\* vscode.debug.addBreakpoints: the host adds the breakpoints it does not hold
\* yet and fires onDidChangeBreakpoints for them before it returns
DebugAddBreakpoints(st, bps) ==
    LET new == SelectSeq(bps, LAMBDA b : b.id \notin BreakpointIds(st.breakpoints))
        s1 == [st EXCEPT !.breakpoints = @ \o new]
    IN IF new # <<>> THEN HandleChangeBreakpointsEvent(s1, new, <<>>) ELSE s1

\* vscode.debug.removeBreakpoints: the host drops the breakpoints it holds
\* and fires onDidChangeBreakpoints for them before it returns
DebugRemoveBreakpoints(st, bps) ==
    LET old == SelectSeq(bps, LAMBDA b : b.id \in BreakpointIds(st.breakpoints))
        s1 == [st EXCEPT !.breakpoints = SelectSeq(@, LAMBDA b : b.id \notin BreakpointIds(old)),
                         !.removeRequested = Append(@, bps)]
    IN IF old # <<>> THEN HandleChangeBreakpointsEvent(s1, <<>>, old) ELSE s1

\* handleRemoveAllTalkpoints with the signal emitted on both branches
HandleRemoveAllTalkpointsAlwaysEmit(st) ==
    LET numTalkpoints == MapSize(st.talkPoints)
    IN IF numTalkpoints > 0
       THEN LET bps == SelectSeq(st.breakpoints, LAMBDA b : MapHas(st.talkPoints, b.id))
                s1 == DebugRemoveBreakpoints(st, bps)
                s2 == [s1 EXCEPT !.talkPoints = <<>>]
                s3 == ShowMessage(s2, Msg("info", "Removed talkpoints from workspace", numTalkpoints))
            IN EmitTalkpointsChanged(s3)
       ELSE EmitTalkpointsChanged(
                ShowMessage(st, Msg("info", "There are no talkpoints registered", 0)))

\* handleRemoveAllTalkpoints that removes every live breakpoint
HandleRemoveAllTalkpointsEveryBreakpoint(st) ==
    LET numTalkpoints == MapSize(st.talkPoints)
    IN IF numTalkpoints > 0
       THEN LET s1 == DebugRemoveBreakpoints(st, st.breakpoints)
                s2 == [s1 EXCEPT !.talkPoints = <<>>]
                s3 == ShowMessage(s2, Msg("info", "Removed talkpoints from workspace", numTalkpoints))
            IN EmitTalkpointsChanged(s3)
       ELSE ShowMessage(st, Msg("info", "There are no talkpoints registered", 0))

\* handleRemoveAllTalkpoints that reads the size after the removal
HandleRemoveAllTalkpointsLateCount(st) ==
    IF MapSize(st.talkPoints) > 0
    THEN LET bps == SelectSeq(st.breakpoints, LAMBDA b : MapHas(st.talkPoints, b.id))
             s1 == DebugRemoveBreakpoints(st, bps)
             s2 == [s1 EXCEPT !.talkPoints = <<>>]
             s3 == ShowMessage(s2, Msg("info", "Removed talkpoints from workspace",
                                       MapSize(s1.talkPoints)))
         IN EmitTalkpointsChanged(s3)
    ELSE ShowMessage(st, Msg("info", "There are no talkpoints registered", 0))

\* handleRemoveAllTalkpoints()
HandleRemoveAllTalkpoints(st) ==
    LET numTalkpoints == MapSize(st.talkPoints)
    IN IF numTalkpoints > 0
       THEN LET bps == SelectSeq(st.breakpoints, LAMBDA b : MapHas(st.talkPoints, b.id))
                s1 == DebugRemoveBreakpoints(st, bps)
                s2 == [s1 EXCEPT !.talkPoints = <<>>]
                s3 == ShowMessage(s2, Msg("info", "Removed talkpoints from workspace", numTalkpoints))
            IN EmitTalkpointsChanged(s3)
       ELSE ShowMessage(st, Msg("info", "There are no talkpoints registered", 0))

\* a toggle that leaves the breakpoint to the debugging subsystem
ToggleOffTalkpointStoreOnly(st, bp) ==
    EmitTalkpointsChanged(RemoveTalkpoints(st, <<bp>>))

\* createTalkpoint, the branch taken when the Map has the breakpoint's id
ToggleOffTalkpoint(st, bp) ==
    EmitTalkpointsChanged(DebugRemoveBreakpoints(RemoveTalkpoints(st, <<bp>>), <<bp>>))

\* createTalkpoint without the call of vscode.debug.addBreakpoints
CommitTalkpointUnregistered(st, state, path, line, bp) ==
    LET s1 == [st EXCEPT !.talkPoints =
                  MapSet(@, bp.id, MakeTalkpoint(state, path, line, bp.id))]
    IN EmitTalkpointsChanged(
           ShowMessage(s1, Msg("info", "Added talkpoint to line", line + 1)))

\* createTalkpoint after showTalkpointCreationSteps returned state
CommitTalkpoint(st, state, path, line, bp) ==
    LET s1 == [st EXCEPT !.talkPoints =
                  MapSet(@, bp.id, MakeTalkpoint(state, path, line, bp.id))]
        s2 == DebugAddBreakpoints(s1, <<bp>>)
        s3 == ShowMessage(s2, Msg("info", "Added talkpoint to line", line + 1))
    IN EmitTalkpointsChanged(s3)

\* a dismissal that falls through to the emit at the end of createTalkpoint
DismissTalkpointEmitting(st) ==
    EmitTalkpointsChanged(ShowMessage(st, Msg("warning", "Dismissed talkpoint creation", 0)))

\* createTalkpoint when state.dismissedEarly
DismissTalkpoint(st) == ShowMessage(st, Msg("warning", "Dismissed talkpoint creation", 0))

\* a filter that compares the line alone
ExistingBreakpointsAnyFile(bps, path, line) ==
    SelectSeq(bps, LAMBDA b : b.line = line)

\* handleAddTalkpoint: the live breakpoints on the selected line of the file
ExistingBreakpoints(bps, path, line) ==
    SelectSeq(bps, LAMBDA b : b.line = line /\ path = b.path)

\* ------------------------------------------------------------ behaviour
\* Entries an earlier session may have saved: their keys are identities of
\* that session, never given again by the host.
StaleState(id) ==
    CHOOSE state \in CreationStates : state.shouldContinue = (id % 2 = 1)

StaleEntry(id, loc) ==
    [key |-> id, value |-> MakeTalkpoint(StaleState(id), loc[1], loc[2], id)]

PersistedSequences ==
    UNION { { [i \in 1..n |-> StaleEntry(i, locs[i])] : locs \in [1..n -> Locations] } :
            n \in 0..MaxStale }

TalkpointsAt(m, loc) == {i \in 1..Len(m) : FileLineOfTalkpoint(m[i].value) = loc}

FlowsAt(fs, loc) == {i \in 1..Len(fs) : <<fs[i].path, fs[i].line>> = loc}

\* a location starts a toggle sequence when it has no talkpoint and no open flow
FreshToggles(m, fs) ==
    [loc \in Locations |->
        IF TalkpointsAt(m, loc) = {} /\ FlowsAt(fs, loc) = {} THEN 0 ELSE -1]

NoBreakpoint == MakeBreakpoint(0, "", 0)

Op(name, added, removed, path, line, breakpoint) ==
    [name |-> name, added |-> added, removed |-> removed,
     path |-> path, line |-> line, breakpoint |-> breakpoint]

Snapshot ==
    [talkPoints |-> talkPoints, breakpointsLoaded |-> breakpointsLoaded,
     workspaceState |-> workspaceState, breakpoints |-> breakpoints,
     joins |-> joins, flows |-> flows, committed |-> committed,
     plainHosts |-> plainHosts]

\* the ids of s that still are a live breakpoint with a talkpoint
StillHosting(st, s) == s \cap MapKeys(st.talkPoints) \cap BreakpointIds(st.breakpoints)

\* ------------------------------------------------ debug adapter tracker
\* a debug-adapter message m: m.type, m.event, m.body.reason, m.body.threadId
DebugMessage(type, event, reason, threadId) ==
    [type |-> type, event |-> event, reason |-> reason, threadId |-> threadId]

NoMessage == DebugMessage("none", "none", "none", 0)

DebugMessages ==
    { DebugMessage("event", "stopped", "breakpoint", 1),
      DebugMessage("event", "stopped", "step", 2),
      DebugMessage("event", "stopped", "exception", 1),
      DebugMessage("event", "initialized", "undefined", 0),
      DebugMessage("response", "stopped", "breakpoint", 1) }

\* a condition that leaves out the stop reason
IsStoppedEventAnyReason(m) == m.type = "event" /\ m.event = "stopped"

\* the condition of the second if of onDidSendMessage
IsStoppedEvent(m) ==
    /\ m.type = "event"
    /\ m.event = "stopped"
    /\ (m.reason = "breakpoint" \/ m.reason = "step")

\* the debug adapter counts lines from 1
DapLines == 1..(MaxLine + 1)

\* source paths as the adapter reports them
SourcePaths == {"/a.py", "b.py"}

StackFrame(id, path, line) == [id |-> id, path |-> path, line |-> line]

\* stack.stackFrames[0] of a response without frames
NoFrame == StackFrame(0, "undefined", 0)

StackFrames == {StackFrame(1, path, line) : path \in SourcePaths, line \in DapLines}

\* vscode.Uri.file(path).path: a path that does not begin with a slash gets one
UriFilePath(path) == IF path \in {"/a.py", "/b.py"} THEN path ELSE "/" \o path

\* outcome of session.getDebugProtocolBreakpoint(b), read as (debugBreakpoint as any)?.line
Pending == [status |-> "pending", line |-> 0]

Rejected == [status |-> "rejected", line |-> 0]

Undefined == [status |-> "undefined", line |-> 0]

Resolved(line) == [status |-> "resolved", line |-> line]

\* a predicate that trusts the nominal line of the breakpoint
PredicateNominalLine(b, debugBreakpoint, frame) ==
    /\ b.path = UriFilePath(frame.path)
    /\ b.line = frame.line

\* the predicate given to asyncFilter, after its await
Predicate(b, debugBreakpoint, frame) ==
    /\ b.path = UriFilePath(frame.path)
    /\ debugBreakpoint.status = "resolved"
    /\ debugBreakpoint.line = frame.line

\* a wait that ends with the first predicate result
PromiseAny(lines) == \E j \in 1..Len(lines) : lines[j] # Pending

\* asyncFilter: await Promise.all(arr.map(predicate)) ends when every
\* predicate has its result
PromiseAll(lines) == \A j \in 1..Len(lines) : lines[j] # Pending

\* asyncFilter: arr.filter((_v, index) => results[index])
RECURSIVE AsyncFilter(_, _)
AsyncFilter(arr, results) ==
    IF arr = <<>> THEN <<>>
    ELSE (IF Head(results) THEN <<Head(arr)>> ELSE <<>>)
         \o AsyncFilter(Tail(arr), Tail(results))

\* one request to the session or one feedback given, on behalf of breakpoint id
Entry(kind, id, threadId, frameId, arg) ==
    [kind |-> kind, id |-> id, threadId |-> threadId, frameId |-> frameId, arg |-> arg]

\* what the dispatch of one stopped event works on
\* (thrown: the callback under way has ended in an exception)
Tracker == [session |-> session, evaluating |-> evaluating,
            outputChannel |-> outputChannel, disposed |-> disposed,
            thrown |-> FALSE, tonalTalkpointBuffer |-> tonalTalkpointBuffer]

Log(tr, e) == [tr EXCEPT !.session = Append(@, e)]

\* logToOutputChannel: outputChannel.show() and appendLine(msg), on a closed
\* channel too
LogToOutputChannel(tr, line) ==
    CASE tr.disposed = "no" -> [tr EXCEPT !.outputChannel = Append(@, line)]
      [] tr.disposed = "ignoring" -> Log(tr, Entry("closed", 0, 0, 0, line))
      [] OTHER -> [Log(tr, Entry("closed", 0, 0, 0, line)) EXCEPT !.thrown = TRUE]

\* a continue request issued only when the feedback before it succeeded
ContinueUnlessFailed(tr, talkpoint, id, m) ==
    IF /\ talkpoint.shouldContinue
       /\ ~tr.thrown
       /\ tr.session # <<>>
       /\ tr.session[Len(tr.session)].kind \notin {"invalid", "error"}
    THEN Log(tr, Entry("continue", id, m.threadId, 0, ""))
    ELSE tr

\* a continue request issued whatever the talkpoint says
ContinueAlways(tr, talkpoint, id, m) ==
    Log(tr, Entry("continue", id, m.threadId, 0, ""))

\* if (talkpoint.shouldContinue) session.customRequest('continue', ...)
ContinueIfConfigured(tr, talkpoint, id, m) ==
    IF talkpoint.shouldContinue /\ ~tr.thrown
    THEN Log(tr, Entry("continue", id, m.threadId, 0, ""))
    ELSE tr

\* a callback that resumes the thread before it gives the feedback
DispatchTalkpointContinueFirst(tr, b, store, m, frame) ==
    IF ~MapHas(store, b.id) THEN tr
    ELSE LET talkpoint == MapValue(store, b.id)
             t0 == ContinueIfConfigured(tr, talkpoint, b.id, m)
         IN CASE talkpoint.type = "Tonal" ->
                   Log(t0, Entry("play", b.id, 0, 0, tr.tonalTalkpointBuffer))
              [] talkpoint.type = "Text" ->
                   LogToOutputChannel(Log(t0, Entry("text", b.id, 0, 0, talkpoint.text)),
                                      "Text Talkpoint Hit: " \o talkpoint.text)
              [] talkpoint.type = "Expression" ->
                   [Log(t0, Entry("evaluate", b.id, 0, frame.id, talkpoint.expression))
                       EXCEPT !.evaluating =
                           Append(@, [id |-> b.id, talkpoint |-> talkpoint, m |-> m])]
              [] OTHER ->
                   Log(t0, Entry("error", b.id, 0, 0, "Unrecognized Talkpoint"))

\* a callback that takes the first talkpoint of the Map when the breakpoint
\* has none
DispatchTalkpointOfAnyKey(tr, b, store, m, frame) ==
    IF store = <<>> THEN tr
    ELSE LET talkpoint == IF MapHas(store, b.id) THEN MapValue(store, b.id)
                          ELSE store[1].value
         IN IF talkpoint.type = "Tonal"
            THEN ContinueIfConfigured(
                     Log(tr, Entry("play", b.id, 0, 0, tr.tonalTalkpointBuffer)),
                     talkpoint, b.id, m)
            ELSE ContinueIfConfigured(
                     LogToOutputChannel(
                         Log(tr, Entry("text", b.id, 0, 0, talkpoint.text)),
                         "Text Talkpoint Hit: " \o talkpoint.text),
                     talkpoint, b.id, m)

\* a callback whose switch has no default branch
DispatchTalkpointNoDefault(tr, b, store, m, frame) ==
    IF ~MapHas(store, b.id) THEN tr
    ELSE LET talkpoint == MapValue(store, b.id)
             t0 == [tr EXCEPT !.thrown = FALSE]
         IN CASE talkpoint.type = "Tonal" ->
                   ContinueIfConfigured(
                       Log(t0, Entry("play", b.id, 0, 0, tr.tonalTalkpointBuffer)),
                       talkpoint, b.id, m)
              [] talkpoint.type = "Text" ->
                   ContinueIfConfigured(
                       LogToOutputChannel(
                           Log(t0, Entry("text", b.id, 0, 0, talkpoint.text)),
                           "Text Talkpoint Hit: " \o talkpoint.text),
                       talkpoint, b.id, m)
              [] talkpoint.type = "Expression" ->
                   [Log(t0, Entry("evaluate", b.id, 0, frame.id, talkpoint.expression))
                       EXCEPT !.evaluating =
                           Append(@, [id |-> b.id, talkpoint |-> talkpoint, m |-> m])]
              [] OTHER ->
                   ContinueIfConfigured(t0, talkpoint, b.id, m)

\* the callback of matchedBreakpoints.forEach, up to its first await
DispatchTalkpoint(tr, b, store, m, frame) ==
    IF ~MapHas(store, b.id) THEN tr
    ELSE LET talkpoint == MapValue(store, b.id)
             t0 == [tr EXCEPT !.thrown = FALSE]
         IN CASE talkpoint.type = "Tonal" ->
                   ContinueIfConfigured(
                       Log(t0, Entry("play", b.id, 0, 0, tr.tonalTalkpointBuffer)),
                       talkpoint, b.id, m)
              [] talkpoint.type = "Text" ->
                   ContinueIfConfigured(
                       LogToOutputChannel(
                           Log(t0, Entry("text", b.id, 0, 0, talkpoint.text)),
                           "Text Talkpoint Hit: " \o talkpoint.text),
                       talkpoint, b.id, m)
              [] talkpoint.type = "Expression" ->
                   [Log(t0, Entry("evaluate", b.id, 0, frame.id, talkpoint.expression))
                       EXCEPT !.evaluating =
                           Append(@, [id |-> b.id, talkpoint |-> talkpoint, m |-> m])]
              [] OTHER ->
                   ContinueIfConfigured(
                       Log(t0, Entry("error", b.id, 0, 0, "Unrecognized Talkpoint")),
                       talkpoint, b.id, m)

\* a loop that waits for each callback before it starts the next one
RECURSIVE ForEachMatchedAwaiting(_, _, _, _, _)
ForEachMatchedAwaiting(tr, bps, store, m, frame) ==
    IF bps = <<>> \/ tr.evaluating # <<>> THEN tr
    ELSE ForEachMatchedAwaiting(DispatchTalkpoint(tr, Head(bps), store, m, frame),
                                Tail(bps), store, m, frame)

\* matchedBreakpoints.forEach(async (b) => ...): every callback runs up to its
\* first await, one after the other
RECURSIVE ForEachMatched(_, _, _, _, _)
ForEachMatched(tr, bps, store, m, frame) ==
    IF bps = <<>> THEN tr
    ELSE ForEachMatched(DispatchTalkpoint(tr, Head(bps), store, m, frame),
                        Tail(bps), store, m, frame)

\* outcomes of an evaluate request: response.result, or the error thrown
EvaluateOutcomes == { [ok |-> TRUE, text |-> "42"], [ok |-> FALSE, text |-> "NameError"] }

\* a callback without the catch: the error ends it
EvaluateRespondedUncaught(tr, e, outcome) ==
    IF outcome.ok
    THEN ContinueIfConfigured(
             LogToOutputChannel(Log(tr, Entry("expression", e.id, 0, 0, outcome.text)),
                                "Expression Talkpoint Hit: " \o outcome.text),
             e.talkpoint, e.id, e.m)
    ELSE tr

\* the callback of an Expression talkpoint after its await
EvaluateResponded(tr, e, outcome) ==
    LET prefix == IF outcome.ok THEN "Expression Talkpoint Hit: "
                  ELSE "Expression Talkpoint Invalid: "
        kind == IF outcome.ok THEN "expression" ELSE "invalid"
        t1 == LogToOutputChannel(Log(tr, Entry(kind, e.id, 0, 0, outcome.text)),
                                 prefix \o outcome.text)
    IN ContinueIfConfigured(t1, e.talkpoint, e.id, e.m)

\* no debug session has delivered a message yet
TrackerInit ==
    /\ message = NoMessage
    /\ stopped = NoMessage
    /\ pc = "idle"
    /\ currentFrame = NoFrame
    /\ sourceBreakpoints = <<>>
    /\ debugLines = <<>>
    /\ matchedBreakpoints = <<>>
    /\ dispatched = <<>>
    /\ evaluating = <<>>
    /\ session = <<>>
    /\ outputChannel = <<>>

\* ------------------------------------------------ workspace storage
\* Memento values are kept as JSON.  JSON.stringify of a talkpoint leaves out
\* the properties whose value is undefined, writes the Position as its line
\* and character and the Uri as its components.
JsonOfTalkpoint(t) ==
    LET optional == {"type", "text", "expression", "sound"}
        written == {f \in optional : t[f] # "undefined"}
                      \cup {"position", "uri", "breakpointId", "shouldContinue"}
    IN [f \in written |->
          CASE f = "position" -> [line |-> t.position, character |-> 0]
            [] f = "uri" -> [scheme |-> "file", path |-> t.uri]
            [] OTHER -> t[f]]

\* a stringify that also leaves out the sound
JsonStringifyWithoutSound(entries) ==
    [i \in 1..Len(entries) |->
        [key |-> entries[i].key,
         value |-> [f \in DOMAIN JsonOfTalkpoint(entries[i].value) \ {"sound"} |->
                       JsonOfTalkpoint(entries[i].value)[f]]]]

\* JSON.stringify([...this._talkPoints.entries()])
JsonStringify(entries) ==
    [i \in 1..Len(entries) |->
        [key |-> entries[i].key, value |-> JsonOfTalkpoint(entries[i].value)]]

\* reading property f of a parsed object
Property(o, f) == IF f \in DOMAIN o THEN o[f] ELSE "undefined"

\* what the code reads of a parsed talkpoint: uri.path, position.line and
\* the plain properties
TalkpointOfJson(o) ==
    [type |-> Property(o, "type"), text |-> Property(o, "text"),
     expression |-> Property(o, "expression"), sound |-> Property(o, "sound"),
     position |-> o.position.line, uri |-> o.uri.path,
     breakpointId |-> o.breakpointId, shouldContinue |-> o.shouldContinue]

\* JSON.parse of the stored value
JsonParse(json) ==
    [i \in 1..Len(json) |-> [key |-> json[i].key, value |-> TalkpointOfJson(json[i].value)]]

\* nothing was ever stored under 'talkpoints'
AbsentStorage == [present |-> FALSE, json |-> <<>>]

StorageWritten(entries) == [present |-> TRUE, json |-> JsonStringify(entries)]

\* workspaceState.get('talkpoints') || [] at the start of a session
WorkspaceStateGet(file) == IF file.present THEN JsonParse(file.json) ELSE <<>>

\* a Map that takes the first entry of the iterable only
NewMapFirstEntry(entries) ==
    IF entries = <<>> THEN <<>> ELSE <<Head(entries)>>

\* new Map(iterable)
RECURSIVE NewMap(_)
NewMap(entries) ==
    IF entries = <<>> THEN <<>>
    ELSE LET e == entries[Len(entries)]
         IN MapSet(NewMap(SubSeq(entries, 1, Len(entries) - 1)), e.key, e.value)

\* ------------------------------------------------ debounced listener
\* no event: args of the closure when no call is pending
NoArgs == [n |-> 0, active |-> FALSE]

\* the closure of debounce before the first call
DebounceIdle == [timeout |-> 0, previous |-> 0, args |-> NoArgs]

\* debounce given a third argument that is true
ErrorListenerImmediateGiven == TRUE

\* the third argument, immediate, of debounce(listener, interval): not given
ErrorListenerImmediate == FALSE

\* underscore's debounced function called with event e at time now: args and
\* previous are overwritten, the timer is set when none is pending, and
\* func is applied at once only when immediate.  ran: the events func was
\* applied to.
DebouncedCall(d, e, now, wait, immediate) ==
    LET d1 == [d EXCEPT !.args = e, !.previous = now]
    IN IF d.timeout = 0
       THEN [closure |-> [d1 EXCEPT !.timeout = now + wait],
             ran |-> IF immediate THEN <<e>> ELSE <<>>]
       ELSE [closure |-> d1, ran |-> <<>>]

\* underscore's later, the timer callback, at time now: when a call came
\* less than wait ago the timer is set again for the rest, else func is
\* applied to the args of the last call unless immediate
Later(d, now, wait, immediate) ==
    LET passed == now - d.previous
    IN IF wait > passed
       THEN [closure |-> [d EXCEPT !.timeout = now + (wait - passed)], ran |-> <<>>]
       ELSE [closure |-> [d EXCEPT !.timeout = 0, !.args = NoArgs],
             ran |-> IF immediate THEN <<>> ELSE <<d.args>>]

\* The body of the listener, h being _previousDiagnostics.length and the
\* play calls, current the length of getDiagnostics(uri) now.
RealTimeErrorDiagnosticsListener(h, e, enabled, current) ==
    IF enabled /\ e.active
    THEN [previousDiagnostics |-> current,
          played |-> h.played + (IF current > h.previousDiagnostics THEN 1 ELSE 0)]
    ELSE h

\* the listener applied to the events of ran, one after the other
RECURSIVE RunListener(_, _, _, _)
RunListener(h, ran, enabled, current) ==
    IF ran = <<>> THEN h
    ELSE RunListener(RealTimeErrorDiagnosticsListener(h, Head(ran), enabled, current),
                     Tail(ran), enabled, current)

\* no diagnostics event has been fired
DiagnosticsInit(enabled) ==
    /\ clock = 0
    /\ debounced = DebounceIdle
    /\ arrivals = <<>>
    /\ processed = <<>>
    /\ diagnostics = 0
    /\ previousDiagnostics = 0
    /\ played = 0
    /\ enableErrorDetection = enabled

\* ------------------------------------------------------- settings
\* this._defaultErrorBeepSound
DefaultErrorBeepSound == "errorBeep.wav"

\* customErrorSound / customBreakpointSound: not set, or the path of a file
CustomSounds == {"", "custom.wav"}

\* the 'codeTalk' section of the workspace configuration
Configurations ==
    { [errors |-> [enableErrorDetection |-> TRUE, errorDetectionInterval |-> Interval,
                   customErrorSound |-> e],
       talkpoints |-> [customBreakpointSound |-> t]] : e, t \in CustomSounds }

\* this._errorSettings before loadSettings has run: undefined
NoErrorSettings ==
    [defined |-> FALSE, errorDetectionInterval |-> 0, customErrorSound |-> ""]

\* this._talkPointSettings before loadSettings has run: undefined
NoTalkpointSettings == [defined |-> FALSE, customBreakpointSound |-> ""]

\* workspaceSettings.get<IErrorSettings>('errors')
ErrorSettingsOf(c) ==
    [defined |-> TRUE, errorDetectionInterval |-> c.errors.errorDetectionInterval,
     customErrorSound |-> c.errors.customErrorSound]

\* workspaceSettings.get<ITalkpointSettings>('talkpoints')
TalkpointSettingsOf(c) ==
    [defined |-> TRUE, customBreakpointSound |-> c.talkpoints.customBreakpointSound]

\* what loadSettings works on
Settings ==
    [errorSettings |-> errorSettings, talkPointSettings |-> talkPointSettings,
     errorSoundBuffer |-> errorSoundBuffer, tonalTalkpointBuffer |-> tonalTalkpointBuffer,
     enableErrorDetection |-> enableErrorDetection, debounced |-> debounced,
     loading |-> loading, messages |-> <<>>]

\* a catch that installs the default sound
FailedLoadFallsBack(buffer) == DefaultErrorBeepSound

\* the buffer after await load(custom) was rejected: the assignment did not
\* happen
FailedLoad(buffer) == buffer

\* await load(...): the run is suspended; prev is its prevTalkPointSettings
AwaitLoad(ls, buffer, custom, prev) ==
    [ls EXCEPT !.loading =
        Append(@, [buffer |-> buffer, custom |-> custom # "",
                   path |-> IF custom # "" THEN custom ELSE DefaultErrorBeepSound,
                   prev |-> prev])]

\* loadSettings from its third if on: the tonal sound is loaded when the
\* setting differs from the one the run began with
TalkpointSoundPart(ls, prev) ==
    IF \/ ~prev.defined
       \/ prev.customBreakpointSound # ls.talkPointSettings.customBreakpointSound
    THEN AwaitLoad(ls, "tonalTalkpointBuffer",
                   ls.talkPointSettings.customBreakpointSound, prev)
    ELSE ls

\* loadSettings from its second if on
ErrorSoundPart(ls, prevErrorSettings, prevTalkPointSettings) ==
    IF \/ ~prevErrorSettings.defined
       \/ prevErrorSettings.customErrorSound # ls.errorSettings.customErrorSound
    THEN AwaitLoad(ls, "errorSoundBuffer", ls.errorSettings.customErrorSound,
                   prevTalkPointSettings)
    ELSE TalkpointSoundPart(ls, prevTalkPointSettings)

\* the function given to debounce as loadSettings, up to its first await:
\* the settings are read, the diagnostics listener is registered anew when
\* the interval differs
LoadSettings(ls, c) ==
    LET l1 == [ls EXCEPT !.errorSettings = ErrorSettingsOf(c),
                         !.talkPointSettings = TalkpointSettingsOf(c),
                         !.enableErrorDetection = c.errors.enableErrorDetection]
        l2 == IF \/ ~ls.errorSettings.defined
                 \/ ls.errorSettings.errorDetectionInterval #
                       l1.errorSettings.errorDetectionInterval
              THEN [l1 EXCEPT !.debounced = DebounceIdle] ELSE l1
    IN ErrorSoundPart(l2, ls.errorSettings, ls.talkPointSettings)

\* await load(...) of a suspended run is settled: the buffer is assigned, or
\* the catch shows the error message; the run goes on
LoadSettled(ls, run, ok) ==
    IF run.buffer = "errorSoundBuffer"
    THEN TalkpointSoundPart(
             IF ok THEN [ls EXCEPT !.errorSoundBuffer = run.path]
             ELSE ShowMessage(
                      [ls EXCEPT !.errorSoundBuffer = FailedLoad(@)],
                      Msg("error", "Failed to load custom sound for Error Detection", 0)),
             run.prev)
    ELSE IF ok THEN [ls EXCEPT !.tonalTalkpointBuffer = run.path]
         ELSE ShowMessage(
                  [ls EXCEPT !.tonalTalkpointBuffer = FailedLoad(@)],
                  Msg("error", "Failed to load custom sound for Tonal Talkpoint", 0))

\* the constructor has run, activate has not
SettingsInit ==
    /\ configuration \in Configurations
    /\ errorSettings = NoErrorSettings
    /\ talkPointSettings = NoTalkpointSettings
    /\ errorSoundBuffer = "undefined"
    /\ tonalTalkpointBuffer = "undefined"
    /\ loadSettingsDebounced = DebounceIdle
    /\ loading = <<>>
    /\ activated = FALSE

\* the extension is active and loadSettings has run to its end in a
\* workspace without custom sounds
SettingsLoaded ==
    /\ configuration \in {c \in Configurations :
                              /\ c.errors.customErrorSound = ""
                              /\ c.talkpoints.customBreakpointSound = ""}
    /\ errorSettings = ErrorSettingsOf(configuration)
    /\ talkPointSettings = TalkpointSettingsOf(configuration)
    /\ errorSoundBuffer = DefaultErrorBeepSound
    /\ tonalTalkpointBuffer = DefaultErrorBeepSound
    /\ loadSettingsDebounced = DebounceIdle
    /\ loading = <<>>
    /\ activated = TRUE

\* ------------------------------------------- talkpoint creation menu
\* what the user may have typed into an input box
Typed == {"", "hello", "x + 1"}

\* the labels of talkpointTypes
TalkpointTypes == {"Tonal", "Text", "Expression"}

\* the labels of shouldContinueItems
ShouldContinueItems == {"Stop", "Continue"}

QuickPicks == {"showTalkpointTypeQuickPick", "showContinueQuickpick"}

InputBoxes == {"showTextTalkpointInput", "showExpressionTalkpointInput"}

\* the items of the quick pick a step shows
Items(step) ==
    IF step = "showTalkpointTypeQuickPick" THEN TalkpointTypes ELSE ShouldContinueItems

\* {} as Partial<ITalkpointCreationState>: an object without properties
EmptyState == <<>>

\* o.f = v on an object
SetProperty(o, f, v) == [g \in DOMAIN o \cup {f} |-> IF g = f THEN v ELSE o[g]]

\* a validate that finds no fault with any value
ValidateAnything(value) == "undefined"

\* validate of both input boxes: the message for an empty value, else undefined
Validate(value) == IF value = "" THEN "required" ELSE "undefined"

\* a settled prompt: resolve(value) or reject(reason)
Resolve(value) == [rejected |-> FALSE, value |-> value]

Reject(reason) == [rejected |-> TRUE, value |-> reason]

\* a call of showTalkpointCreationSteps that was not made yet
NoMultiStepInput ==
    [pc |-> "idle", state |-> EmptyState, steps |-> <<>>, current |-> "none",
     value |-> "", prompts |-> <<>>, lastEvent |-> "none"]

\* the buttons of a prompt: Back when it is not the first step
Buttons(in) == IF Len(in.steps) > 1 THEN {"Back"} ELSE {}

\* showQuickPick / showInputBox: the prompt of the step is created with an
\* empty value, the prompt before it is disposed and the new one shown
ShowInput(in, step) ==
    [in EXCEPT !.current = step, !.value = "", !.prompts = Append(@, step)]

\* stepThrough: while (step) { this.steps.push(step); step = await step(this) },
\* entered with the step to run next; after the loop the prompt is disposed
\* and showTalkpointCreationSteps returns the state
StepThrough(in, step) ==
    IF step = "undefined"
    THEN [in EXCEPT !.pc = "returned",
                    !.current = IF @ = "none" THEN @ ELSE "disposed"]
    ELSE ShowInput([in EXCEPT !.steps = Append(@, step)], step)

\* the catch of every step: .catch(() => { state.dismissedEarly = true })
Caught(state) == SetProperty(state, "dismissedEarly", TRUE)

\* showTalkpointTypeQuickPick after its await
ShowTalkpointTypeQuickPick(state, pick) ==
    IF pick = "undefined" THEN [state |-> state, next |-> "undefined"]
    ELSE LET s1 == SetProperty(state, "type", pick)
         IN CASE pick = "Tonal" ->
                   [state |-> SetProperty(s1, "sound", "Default"),
                    next |-> "showContinueQuickpick"]
              [] pick = "Text" -> [state |-> s1, next |-> "showTextTalkpointInput"]
              [] pick = "Expression" ->
                   [state |-> s1, next |-> "showExpressionTalkpointInput"]
              [] OTHER -> [state |-> s1, next |-> "undefined"]

\* showTextTalkpointInput after its await
ShowTextTalkpointInput(state, text) ==
    IF text \notin {"undefined", ""}
    THEN [state |-> SetProperty(state, "text", text), next |-> "showContinueQuickpick"]
    ELSE [state |-> state, next |-> "undefined"]

\* showExpressionTalkpointInput after its await
ShowExpressionTalkpointInput(state, expression) ==
    IF expression \notin {"undefined", ""}
    THEN [state |-> SetProperty(state, "expression", expression),
          next |-> "showContinueQuickpick"]
    ELSE [state |-> state, next |-> "undefined"]

\* showContinueQuickpick after its await
ShowContinueQuickpick(state, pick) ==
    IF pick # "undefined"
    THEN [state |-> SetProperty(state, "shouldContinue", pick = "Continue"),
          next |-> "undefined"]
    ELSE [state |-> state, next |-> "undefined"]

\* The promise of the current prompt is settled: a rejection is caught by the
\* step, which goes on with an undefined value; the step returns the next
\* step or undefined and stepThrough goes on.
Step(in, settled) ==
    LET s0 == IF settled.rejected THEN Caught(in.state) ELSE in.state
        v == IF settled.rejected THEN "undefined" ELSE settled.value
        r == CASE in.current = "showTalkpointTypeQuickPick" ->
                     ShowTalkpointTypeQuickPick(s0, v)
               [] in.current = "showTextTalkpointInput" ->
                     ShowTextTalkpointInput(s0, v)
               [] in.current = "showExpressionTalkpointInput" ->
                     ShowExpressionTalkpointInput(s0, v)
               [] OTHER -> ShowContinueQuickpick(s0, v)
    IN StepThrough([in EXCEPT !.state = r.state], r.next)

\* showTalkpointCreationSteps has not been called
MenuInit == multiStepInputs = [i \in 1..MaxFlows |-> NoMultiStepInput]

\* the storage file of a workspace whose memento holds entries; the output
\* channel is open
HostInit ==
    /\ storage = IF workspaceState = <<>> THEN AbsentStorage
                 ELSE StorageWritten(workspaceState)
    /\ disposed = "no"
    /\ DiagnosticsInit(TRUE)
    /\ MenuInit
    /\ SettingsLoaded

\* constructor: the Map is built from the persisted sequence (or [])
Init ==
    /\ workspaceState \in PersistedSequences
    /\ talkPoints = workspaceState
    /\ breakpointsLoaded = FALSE
    /\ breakpoints = <<>>
    /\ nextId = MaxStale + 1
    /\ flows = <<>>
    /\ lastOp = Op("init", <<>>, <<>>, "", 0, NoBreakpoint)
    /\ committed = {}
    /\ messages = <<>>
    /\ emitted = 0
    /\ removeRequested = <<>>
    /\ joined = FALSE
    /\ joins = 0
    /\ plainHosts = {}
    /\ toggles = FreshToggles(talkPoints, flows)
    /\ before = Snapshot
    /\ TrackerInit
    /\ HostInit

\* The turn's result becomes the state; the state it began in is kept in
\* before.  The host writes the storage file when update has been called.
EndTurn(st) ==
    /\ talkPoints' = st.talkPoints
    /\ breakpointsLoaded' = st.breakpointsLoaded
    /\ workspaceState' = st.workspaceState
    /\ breakpoints' = st.breakpoints
    /\ messages' = st.messages
    /\ emitted' = st.emitted
    /\ removeRequested' = st.removeRequested
    /\ joined' = st.joined
    /\ joins' = st.joins
    /\ before' = Snapshot
    /\ message' = NoMessage
    /\ storage' = IF st.emitted > 0 THEN StorageWritten(st.workspaceState) ELSE storage
    /\ UNCHANGED trackerVars
    /\ UNCHANGED <<disposed, diagnosticsVars, menuVars, settingsVars>>

\* The debugging subsystem reports breakpoints added outside the extension
\* (restored at start-up or set by the user): onDidChangeBreakpoints with
\* e.added, the breakpoints being in vscode.debug.breakpoints already.
BreakpointsAdded ==
    \E n \in 1..MaxAdded : \E locs \in [1..n -> Locations] :
        /\ activated
        /\ nextId + n - 1 <= MaxStale + MaxNew
        /\ LET added == [i \in 1..n |-> MakeBreakpoint(nextId + i - 1, locs[i][1], locs[i][2])]
               st == HandleChangeBreakpointsEvent(
                        [Turn EXCEPT !.breakpoints = @ \o added], added, <<>>)
           IN /\ EndTurn(st)
              /\ nextId' = nextId + n
              /\ lastOp' = Op("breakpointsChanged", added, <<>>, "", 0, NoBreakpoint)
              /\ committed' = committed \cap MapKeys(st.talkPoints)
              /\ plainHosts' = StillHosting(st, plainHosts)
              /\ toggles' = FreshToggles(st.talkPoints, flows)
        /\ UNCHANGED flows

\* The user removes breakpoints outside the extension: onDidChangeBreakpoints
\* with e.removed, the breakpoints being gone from vscode.debug.breakpoints.
BreakpointsRemoved ==
    \E ids \in (SUBSET BreakpointIds(breakpoints)) \ {{}} :
        LET removed == SelectSeq(breakpoints, LAMBDA b : b.id \in ids)
            st == HandleChangeBreakpointsEvent(
                     [Turn EXCEPT !.breakpoints = SelectSeq(@, LAMBDA b : b.id \notin ids)],
                     <<>>, removed)
        IN /\ EndTurn(st)
           /\ lastOp' = Op("breakpointsChanged", <<>>, removed, "", 0, NoBreakpoint)
           /\ committed' = committed \cap MapKeys(st.talkPoints)
           /\ plainHosts' = StillHosting(st, plainHosts)
           /\ toggles' = FreshToggles(st.talkPoints, flows)
           /\ UNCHANGED <<nextId, flows>>

\* A live breakpoint is edited (condition, enablement): onDidChangeBreakpoints
\* with e.changed alone.
BreakpointsChanged ==
    /\ breakpoints # <<>>
    /\ LET st == HandleChangeBreakpointsEvent(Turn, <<>>, <<>>)
       IN /\ EndTurn(st)
          /\ committed' = committed \cap MapKeys(st.talkPoints)
          /\ plainHosts' = StillHosting(st, plainHosts)
    /\ lastOp' = Op("breakpointsChanged", <<>>, <<>>, "", 0, NoBreakpoint)
    /\ UNCHANGED <<nextId, flows, toggles>>

\* codeTalk.addTalkpoint with the cursor on line of the file path:
\* handleAddTalkpoint up to the await in createTalkpoint
AddTalkpoint ==
    \E path \in Paths, line \in Lines :
        LET existingBreakpoints == ExistingBreakpoints(breakpoints, path, line)
            isNew == existingBreakpoints = <<>>
            breakpoint == IF isNew THEN MakeBreakpoint(nextId, path, line)
                          ELSE existingBreakpoints[1]
            loc == <<path, line>>
        IN /\ isNew => nextId <= MaxStale + MaxNew
           /\ nextId' = IF isNew THEN nextId + 1 ELSE nextId
           /\ IF MapHas(talkPoints, breakpoint.id)
              THEN LET st == ToggleOffTalkpoint(Turn, breakpoint)
                   IN /\ EndTurn(st)
                      /\ flows' = flows
                      /\ lastOp' = Op("toggleOff", <<>>, <<>>, path, line, breakpoint)
                      /\ committed' = committed \cap MapKeys(st.talkPoints)
                      /\ plainHosts' = StillHosting(st, plainHosts)
                      /\ toggles' = [toggles EXCEPT ![loc] = IF @ >= 0 THEN @ + 1 ELSE @]
              ELSE /\ Len(flows) < MaxFlows
                   /\ EndTurn(Turn)
                   /\ flows' = Append(flows, [path |-> path, line |-> line,
                                              breakpoint |-> breakpoint])
                   /\ lastOp' = Op("openFlow", <<>>, <<>>, path, line, breakpoint)
                   /\ committed' = committed
                   /\ plainHosts' = plainHosts
                   /\ toggles' = [toggles EXCEPT ![loc] =
                                     IF FlowsAt(flows, loc) = {} THEN @ ELSE -1]

RemoveAt(s, i) == [j \in 1..(Len(s) - 1) |-> IF j < i THEN s[j] ELSE s[j + 1]]

\* showTalkpointCreationSteps returns a completed state: createTalkpoint resumes
FlowCompleted ==
    \E i \in 1..Len(flows), state \in CreationStates :
        LET f == flows[i]
            loc == <<f.path, f.line>>
            st == CommitTalkpoint(Turn, state, f.path, f.line, f.breakpoint)
        IN /\ EndTurn(st)
           /\ flows' = RemoveAt(flows, i)
           /\ lastOp' = Op("commit", <<>>, <<>>, f.path, f.line, f.breakpoint)
                        @@ [state |-> state]
           /\ committed' = (committed \cup {f.breakpoint.id}) \cap MapKeys(st.talkPoints)
           /\ plainHosts' = StillHosting(st,
                                IF /\ f.breakpoint.id \in BreakpointIds(breakpoints)
                                   /\ ~MapHas(talkPoints, f.breakpoint.id)
                                THEN plainHosts \cup {f.breakpoint.id} ELSE plainHosts)
           /\ toggles' = [toggles EXCEPT ![loc] = IF @ >= 0 THEN @ + 1 ELSE @]
           /\ UNCHANGED nextId

\* showTalkpointCreationSteps returns dismissedEarly: createTalkpoint returns
FlowDismissed ==
    \E i \in 1..Len(flows) :
        LET f == flows[i]
        IN /\ EndTurn(DismissTalkpoint(Turn))
           /\ flows' = RemoveAt(flows, i)
           /\ lastOp' = Op("dismiss", <<>>, <<>>, f.path, f.line, f.breakpoint)
           /\ UNCHANGED <<nextId, toggles, committed, plainHosts>>

\* codeTalk.removeAllTalkpoints
RemoveAllTalkpoints ==
    LET st == HandleRemoveAllTalkpoints(Turn)
    IN /\ EndTurn(st)
       /\ lastOp' = Op("removeAll", <<>>, <<>>, "", 0, NoBreakpoint)
       /\ committed' = committed \cap MapKeys(st.talkPoints)
       /\ plainHosts' = StillHosting(st, plainHosts)
       /\ toggles' = FreshToggles(st.talkPoints, flows)
       /\ UNCHANGED <<nextId, flows>>

Next ==
    \/ BreakpointsAdded
    \/ BreakpointsRemoved
    \/ BreakpointsChanged
    \/ AddTalkpoint
    \/ FlowCompleted
    \/ FlowDismissed
    \/ RemoveAllTalkpoints

Spec == Init /\ [][Next]_vars

\* ---------------------------------------------- debug adapter tracker
\* The end of asyncFilter and the forEach over its result.  Nothing runs
\* between the last predicate result and the forEach but promise reactions.
FinishMatching(bps, lines, frame) ==
    LET results == [i \in 1..Len(bps) |-> Predicate(bps[i], lines[i], frame)]
        matched == AsyncFilter(bps, results)
        found == SelectSeq(matched, LAMBDA b : MapHas(talkPoints, b.id))
        tr == ForEachMatched(Tracker, matched, talkPoints, stopped, frame)
    IN /\ debugLines' = lines
       /\ matchedBreakpoints' = matched
       /\ dispatched' = [k \in 1..Len(found) |->
                            [id |-> found[k].id,
                             talkpoint |-> MapValue(talkPoints, found[k].id)]]
       /\ evaluating' = tr.evaluating
       /\ session' = tr.session
       /\ outputChannel' = tr.outputChannel
       /\ pc' = "dispatched"

\* onDidSendMessage(m), up to its first await.  A stopped event is followed
\* when the handler of the one before has ended.
OnDidSendMessage ==
    \E m \in DebugMessages :
        /\ activated
        /\ IsStoppedEvent(m) =>
              /\ pc \in {"idle", "dispatched", "aborted"}
              /\ evaluating = <<>>
              /\ Len(outputChannel) < MaxLogged
        /\ message' = m
        /\ outputChannel' = IF m.type = "event" /\ m.event = "initialized"
                            THEN <<>> ELSE outputChannel
        /\ IF IsStoppedEvent(m)
           THEN /\ stopped' = m
                /\ pc' = "stackTrace"
                /\ session' = <<Entry("stackTrace", 0, m.threadId, 0, "startFrame 0")>>
                /\ currentFrame' = NoFrame
                /\ sourceBreakpoints' = <<>>
                /\ debugLines' = <<>>
                /\ matchedBreakpoints' = <<>>
                /\ dispatched' = <<>>
                /\ UNCHANGED evaluating
           ELSE UNCHANGED <<stopped, pc, session, currentFrame, sourceBreakpoints,
                            debugLines, matchedBreakpoints, dispatched, evaluating>>
        /\ UNCHANGED <<controllerVars, hostVars>>

\* the stackTrace request is answered: the live breakpoints are read and
\* getDebugProtocolBreakpoint is called for each of them
StackTraceResponse ==
    /\ pc = "stackTrace"
    /\ \E frame \in StackFrames \cup {NoFrame} :
          /\ currentFrame' = frame
          /\ sourceBreakpoints' = breakpoints
          /\ IF breakpoints = <<>>
             THEN FinishMatching(<<>>, <<>>, frame)
             ELSE /\ debugLines' = [i \in 1..Len(breakpoints) |-> Pending]
                  /\ pc' = "matching"
                  /\ UNCHANGED <<matchedBreakpoints, dispatched, evaluating, session,
                                 outputChannel>>
    /\ message' = NoMessage
    /\ UNCHANGED stopped
    /\ UNCHANGED <<controllerVars, hostVars>>

\* the stackTrace request is rejected: the handler ends there
StackTraceRejected ==
    /\ pc = "stackTrace"
    /\ pc' = "aborted"
    /\ message' = NoMessage
    /\ UNCHANGED <<stopped, currentFrame, sourceBreakpoints, debugLines,
                   matchedBreakpoints, dispatched, evaluating, session,
                   outputChannel>>
    /\ UNCHANGED <<controllerVars, hostVars>>

\* One getDebugProtocolBreakpoint round trip ends.  A rejection, or the
\* predicate throwing on a missing frame, rejects Promise.all and with it
\* the handler; the last result lets asyncFilter return.
DebugProtocolBreakpointResponse ==
    /\ pc = "matching"
    /\ \E i \in 1..Len(debugLines) :
       \E r \in {Resolved(l) : l \in DapLines} \cup {Undefined, Rejected} :
          /\ debugLines[i] = Pending
          /\ LET lines == [debugLines EXCEPT ![i] = r]
             IN IF r = Rejected \/ currentFrame = NoFrame
                THEN /\ debugLines' = lines
                     /\ pc' = "aborted"
                     /\ UNCHANGED <<matchedBreakpoints, dispatched, evaluating, session,
                                    outputChannel>>
                ELSE IF PromiseAll(lines)
                THEN FinishMatching(sourceBreakpoints, lines, currentFrame)
                ELSE /\ debugLines' = lines
                     /\ UNCHANGED <<pc, matchedBreakpoints, dispatched, evaluating,
                                    session, outputChannel>>
    /\ message' = NoMessage
    /\ UNCHANGED <<stopped, currentFrame, sourceBreakpoints>>
    /\ UNCHANGED <<controllerVars, hostVars>>

\* an evaluate request is answered or fails: the callback of its talkpoint resumes
EvaluateResponse ==
    /\ \E i \in 1..Len(evaluating), outcome \in EvaluateOutcomes :
          LET tr == EvaluateResponded(Tracker, evaluating[i], outcome)
          IN /\ session' = tr.session
             /\ outputChannel' = tr.outputChannel
             /\ evaluating' = RemoveAt(evaluating, i)
    /\ message' = NoMessage
    /\ UNCHANGED <<stopped, pc, currentFrame, sourceBreakpoints, debugLines,
                   matchedBreakpoints, dispatched>>
    /\ UNCHANGED <<controllerVars, hostVars>>

\* results of the creation flow, every type with either behaviour
DispatchStates ==
    CreationStates \cup
    { [type |-> "Tonal", sound |-> "Default", text |-> "undefined",
       expression |-> "undefined", shouldContinue |-> FALSE],
      [type |-> "Text", sound |-> "undefined", text |-> "hello",
       expression |-> "undefined", shouldContinue |-> TRUE],
      [type |-> "Expression", sound |-> "undefined", text |-> "undefined",
       expression |-> "x + 1", shouldContinue |-> TRUE],
      [type |-> "Expression", sound |-> "undefined", text |-> "undefined",
       expression |-> "x + 1", shouldContinue |-> FALSE] }

NoState == [type |-> "none", sound |-> "undefined", text |-> "undefined",
            expression |-> "undefined", shouldContinue |-> FALSE]

\* live breakpoints of a workspace in which a debug session runs
LiveBreakpoints ==
    UNION { { [i \in 1..n |-> MakeBreakpoint(MaxStale + i, paths[i], (i - 1) % (MaxLine + 1))] :
              paths \in [1..n -> Paths] } : n \in 0..MaxLive }

\* the Map after createTalkpoint has run for the breakpoints with a state
StoreOf(bps, states) ==
    LET hosts == SelectSeq([i \in 1..Len(bps) |-> i], LAMBDA i : states[i] # NoState)
    IN [k \in 1..Len(hosts) |->
          [key |-> bps[hosts[k]].id,
           value |-> MakeTalkpoint(states[hosts[k]], bps[hosts[k]].path,
                                   bps[hosts[k]].line, bps[hosts[k]].id)]]

\* The controller when a debug session starts in workspace w: its live
\* breakpoints and its Map, saved.
DebugWorkspace(w) ==
    /\ breakpoints = w.breakpoints
    /\ talkPoints = w.talkPoints
    /\ workspaceState = talkPoints
    /\ breakpointsLoaded = w.breakpointsLoaded
    /\ nextId = w.nextId
    /\ flows = <<>>
    /\ lastOp = Op("init", <<>>, <<>>, "", 0, NoBreakpoint)
    /\ committed = w.committed
    /\ messages = <<>>
    /\ emitted = 0
    /\ removeRequested = <<>>
    /\ joined = FALSE
    /\ joins = IF breakpointsLoaded THEN 1 ELSE 0
    /\ plainHosts = {}
    /\ toggles = FreshToggles(talkPoints, flows)
    /\ before = Snapshot
    /\ TrackerInit
    /\ HostInit

\* live breakpoints bps, those with a state having the talkpoint that
\* createTalkpoint sets for it
Workspace(bps, states) ==
    [breakpoints |-> bps, talkPoints |-> StoreOf(bps, states),
     breakpointsLoaded |-> (bps # <<>>), nextId |-> MaxStale + Len(bps) + 1,
     committed |-> MapKeys(StoreOf(bps, states))]

\* A workspace with live breakpoints, some of them with a talkpoint, when a
\* debug session starts.
CorrelatorInit ==
    \E bps \in LiveBreakpoints :
    \E states \in [1..Len(bps) -> DispatchStates \cup {NoState}] :
        DebugWorkspace(Workspace(bps, states))

CorrelatorNext ==
    \/ OnDidSendMessage
    \/ StackTraceResponse
    \/ StackTraceRejected
    \/ DebugProtocolBreakpointResponse
    \/ EvaluateResponse
    \/ RemoveAllTalkpoints

CorrelatorSpec == CorrelatorInit /\ [][CorrelatorNext]_vars

\* ------------------------------------------- after the first notifications
\* The controller after the constructor has loaded persisted and the
\* debugging subsystem has reported the breakpoints added, then the removal
\* of those in removed.
AfterNotifications(persisted, added, removed) ==
    LET s0 == [talkPoints |-> persisted, breakpointsLoaded |-> FALSE,
               workspaceState |-> persisted, breakpoints |-> added,
               messages |-> <<>>, emitted |-> 0, removeRequested |-> <<>>,
               joined |-> FALSE, joins |-> 0]
        s1 == IF added = <<>> THEN s0 ELSE HandleChangeBreakpointsEvent(s0, added, <<>>)
        kept == SelectSeq(added, LAMBDA b : \A i \in 1..Len(removed) : removed[i] # b)
        s2 == IF removed = <<>> THEN s1
              ELSE HandleChangeBreakpointsEvent([s1 EXCEPT !.breakpoints = kept],
                                                <<>>, removed)
    IN [breakpoints |-> s2.breakpoints, talkPoints |-> s2.talkPoints,
        breakpointsLoaded |-> s2.breakpointsLoaded,
        nextId |-> MaxStale + Len(added) + 1, committed |-> {}]

\* A debug session starts in a session of the editor in which no talkpoint
\* was created: the Map is what the join and the removal of the last
\* reported breakpoint, if it was removed, have left of the persisted
\* talkpoints.
InertInit ==
    \E persisted \in PersistedSequences :
    \E n \in 0..MaxAdded : \E locs \in [1..n -> Locations] :
    \E gone \in 0..(IF n = 0 THEN 0 ELSE 1) :
        LET added == [i \in 1..n |-> MakeBreakpoint(MaxStale + i, locs[i][1], locs[i][2])]
            removed == SubSeq(added, n - gone + 1, n)
        IN DebugWorkspace(AfterNotifications(persisted, added, removed))

InertNext ==
    \/ OnDidSendMessage
    \/ StackTraceResponse
    \/ StackTraceRejected
    \/ DebugProtocolBreakpointResponse

InertSpec == InertInit /\ [][InertNext]_vars

\* --------------------------------- removal while a handler is suspended
\* codeTalk.addTalkpoint invoked on a line whose breakpoint has a talkpoint
ToggleOff ==
    /\ AddTalkpoint
    /\ lastOp'.name = "toggleOff"

\* talkpoints that resume the thread after their feedback
RemovalStates ==
    {state \in DispatchStates :
        state.shouldContinue /\ state.type \in {"Tonal", "Expression"}}

\* a workspace whose live breakpoints are in one file when a debug session
\* starts; the user goes on working with the talkpoints while it runs
RemovalInit ==
    \E bps \in LiveBreakpoints :
    \E states \in [1..Len(bps) -> RemovalStates \cup {NoState}] :
        /\ \A i \in 1..Len(bps) : bps[i].path = "/a.py"
        /\ DebugWorkspace(Workspace(bps, states))

RemovalNext ==
    \/ OnDidSendMessage
    \/ StackTraceResponse
    \/ StackTraceRejected
    \/ DebugProtocolBreakpointResponse
    \/ EvaluateResponse
    \/ RemoveAllTalkpoints
    \/ ToggleOff
    \/ BreakpointsRemoved

RemovalSpec == RemovalInit /\ [][RemovalNext]_vars

\* ------------------------------------------------------- deactivation
\* deactivate(): the listeners of both emitters are removed and the output
\* channel is disposed.  The tracker of a running debug session and the
\* callbacks it has suspended are not told.  Whether a later call on the
\* closed channel is ignored or throws is the host's: either may happen.
Deactivate ==
    /\ disposed = "no"
    /\ disposed' \in {"ignoring", "throwing"}
    /\ session' = Append(session, Entry("deactivate", 0, 0, 0, ""))
    /\ message' = NoMessage
    /\ UNCHANGED <<stopped, pc, currentFrame, sourceBreakpoints, debugLines,
                   matchedBreakpoints, dispatched, evaluating, outputChannel>>
    /\ UNCHANGED <<controllerVars, storage, diagnosticsVars, menuVars, settingsVars>>

\* talkpoints that announce through the output channel and then continue
TeardownStates ==
    {state \in DispatchStates :
        state.shouldContinue /\ state.type \in {"Text", "Expression"}}

\* a workspace whose live breakpoints are in one file when a debug session starts
TeardownInit ==
    \E bps \in LiveBreakpoints :
    \E states \in [1..Len(bps) -> TeardownStates \cup {NoState}] :
        /\ \A i \in 1..Len(bps) : bps[i].path = "/a.py"
        /\ DebugWorkspace(Workspace(bps, states))

TeardownNext ==
    \/ OnDidSendMessage
    \/ StackTraceResponse
    \/ StackTraceRejected
    \/ DebugProtocolBreakpointResponse
    \/ EvaluateResponse
    \/ Deactivate

TeardownSpec == TeardownInit /\ [][TeardownNext]_vars

\* ------------------------------------------ talkpoints of no known type
\* Values of a stored talkpoint whose type the switch does not know: a type
\* of another version of the extension, or no type property at all.
UnrecognizedStates ==
    { [type |-> type, sound |-> "undefined", text |-> "undefined",
       expression |-> "undefined", shouldContinue |-> cont] :
      type \in {"Legacy", "undefined"}, cont \in BOOLEAN }

\* talkpoints that may be matched by the same stopped event
RecognizedStates ==
    {state \in DispatchStates :
        \/ state.type = "Text" /\ ~state.shouldContinue
        \/ state.type = "Expression" /\ state.shouldContinue}

\* A workspace when a debug session starts, at least one live breakpoint
\* having a talkpoint of no known type (loaded from the storage file and
\* re-linked by the join).
UnrecognizedInit ==
    \E bps \in LiveBreakpoints :
    \E states \in [1..Len(bps) -> UnrecognizedStates \cup RecognizedStates \cup {NoState}] :
        /\ \E i \in 1..Len(bps) : states[i] \in UnrecognizedStates
        /\ DebugWorkspace(Workspace(bps, states))

UnrecognizedNext ==
    \/ OnDidSendMessage
    \/ StackTraceResponse
    \/ StackTraceRejected
    \/ DebugProtocolBreakpointResponse
    \/ EvaluateResponse

UnrecognizedSpec == UnrecognizedInit /\ [][UnrecognizedNext]_vars

\* ----------------------------------------------------- save and load
\* Stores a session can end with: talkpoints of every creation result under
\* the ids of its breakpoints, breakpointId being the key or, after a join
\* of two breakpoints on one line, the id of the other
SavedStores ==
    UNION { { [i \in 1..n |->
                 [key |-> MaxStale + i,
                  value |-> MakeTalkpoint(states[i], locs[i][1], locs[i][2], ids[i])]] :
              states \in [1..n -> DispatchStates],
              locs \in [1..n -> Locations],
              ids \in [1..n -> (MaxStale + 1)..(MaxStale + n)] } : n \in 0..MaxSaved }

\* the controller in a workspace in which the extension runs for the first time
FreshController ==
    /\ workspaceState = <<>>
    /\ talkPoints = NewMap(workspaceState)
    /\ breakpointsLoaded = FALSE
    /\ breakpoints = <<>>
    /\ nextId = MaxStale + 1
    /\ flows = <<>>
    /\ lastOp = Op("init", <<>>, <<>>, "", 0, NoBreakpoint)
    /\ committed = {}
    /\ messages = <<>>
    /\ emitted = 0
    /\ removeRequested = <<>>
    /\ joined = FALSE
    /\ joins = 0
    /\ plainHosts = {}
    /\ toggles = FreshToggles(talkPoints, flows)
    /\ before = Snapshot
    /\ TrackerInit

\* a workspace in which the extension runs for the first time
PersistenceInit ==
    /\ FreshController
    /\ HostInit

\* The handlers of the first session have brought the Map to the entries of
\* store, the last of them emitting talkpoints.changed: the listener saves.
TalkpointsChanged ==
    \E store \in SavedStores :
        LET bps == [i \in 1..Len(store) |->
                       MakeBreakpoint(store[i].key, store[i].value.uri,
                                      store[i].value.position)]
            st == EmitTalkpointsChanged(
                      [Turn EXCEPT !.talkPoints = store, !.breakpoints = bps,
                                   !.breakpointsLoaded = (bps # <<>>),
                                   !.joins = IF bps # <<>> THEN 1 ELSE 0])
        IN /\ lastOp.name = "init"
           /\ EndTurn(st)
           /\ lastOp' = Op("save", <<>>, <<>>, "", 0, NoBreakpoint)
           /\ nextId' = MaxStale + Len(bps) + 1
           /\ committed' = {}
           /\ plainHosts' = {}
           /\ toggles' = FreshToggles(st.talkPoints, flows)
           /\ UNCHANGED flows

\* The editor is closed and opened again: the constructor of the next
\* session builds the Map from what the storage file holds.  No breakpoint
\* has been reported yet.
Constructed ==
    LET got == WorkspaceStateGet(storage)
        st == [Turn EXCEPT !.talkPoints = NewMap(got), !.workspaceState = got,
                           !.breakpointsLoaded = FALSE, !.breakpoints = <<>>,
                           !.joins = 0]
    IN /\ lastOp.name # "load"
       /\ EndTurn(st)
       /\ lastOp' = Op("load", <<>>, <<>>, "", 0, NoBreakpoint)
       /\ nextId' = MaxStale + 1
       /\ flows' = <<>>
       /\ committed' = {}
       /\ plainHosts' = {}
       /\ toggles' = FreshToggles(st.talkPoints, <<>>)

PersistenceNext ==
    \/ TalkpointsChanged
    \/ Constructed

PersistenceSpec == PersistenceInit /\ [][PersistenceNext]_vars

\* ------------------------------------------- real-time error detection
\* what the listener did with the events of ran at the time of the step,
\* current being the length of getDiagnostics(uri) then
Listened(ran, current) ==
    LET h == RunListener([previousDiagnostics |-> previousDiagnostics, played |-> played],
                         ran, enableErrorDetection, current)
    IN /\ previousDiagnostics' = h.previousDiagnostics
       /\ played' = h.played
       /\ processed' = processed \o [k \in 1..Len(ran) |-> [event |-> ran[k].n, at |-> clock]]

\* The diagnostics of a document change and onDidChangeDiagnostics fires:
\* the debounced listener is called with the event.
DiagnosticsChanged ==
    /\ Len(arrivals) < MaxEvents
    /\ \E active \in BOOLEAN, n \in 0..MaxDiagnostics :
          LET e == [n |-> Len(arrivals) + 1, active |-> active]
              r == DebouncedCall(debounced, e, clock, Interval, ErrorListenerImmediate)
              current == IF active THEN n ELSE diagnostics
          IN /\ diagnostics' = current
             /\ arrivals' = Append(arrivals, [at |-> clock, active |-> active])
             /\ debounced' = r.closure
             /\ Listened(r.ran, current)
    /\ message' = NoMessage
    /\ UNCHANGED <<clock, enableErrorDetection>>
    /\ UNCHANGED <<controllerVars, trackerVars, storage, disposed, menuVars,
                   settingsVars>>

\* the timer of the debounced listener is due, or overdue, and its callback runs
TimerFired ==
    /\ debounced.timeout # 0
    /\ clock >= debounced.timeout
    /\ LET r == Later(debounced, clock, Interval, ErrorListenerImmediate)
       IN /\ debounced' = r.closure
          /\ Listened(r.ran, diagnostics)
    /\ message' = NoMessage
    /\ UNCHANGED <<clock, arrivals, diagnostics, enableErrorDetection>>
    /\ UNCHANGED <<controllerVars, trackerVars, storage, disposed, menuVars,
                   settingsVars>>

\* time passes
Tick ==
    /\ clock < MaxClock
    /\ clock' = clock + 1
    /\ message' = NoMessage
    /\ UNCHANGED <<debounced, arrivals, processed, diagnostics, previousDiagnostics,
                   played, enableErrorDetection>>
    /\ UNCHANGED <<controllerVars, trackerVars, storage, disposed, menuVars,
                   settingsVars>>

\* the extension is active, error detection being switched on or off
DiagnosticsSpecInit ==
    /\ FreshController
    /\ storage = AbsentStorage
    /\ disposed = "no"
    /\ \E enabled \in BOOLEAN : DiagnosticsInit(enabled)
    /\ MenuInit
    /\ SettingsLoaded

DiagnosticsNext ==
    \/ DiagnosticsChanged
    \/ TimerFired
    \/ Tick

DiagnosticsSpec == DiagnosticsSpecInit /\ [][DiagnosticsNext]_vars

\* ------------------------------------------- activation and settings
\* the third argument, immediate, of debounce(async () => {...}, 2000): not
\* given
LoadSettingsImmediate == FALSE

\* this.loadSettings(): the debounced function is called without arguments
\* and returns at once; func has run up to its first await when ran is not
\* empty
CallLoadSettings ==
    LET r == DebouncedCall(loadSettingsDebounced, NoArgs, clock, SettingsWait,
                           LoadSettingsImmediate)
    IN [closure |-> r.closure,
        ls |-> IF r.ran = <<>> THEN Settings ELSE LoadSettings(Settings, configuration)]

\* what a step of activation or of loadSettings leaves of the state
SettingsFrame(ls, name, buffer) ==
    /\ errorSettings' = ls.errorSettings
    /\ talkPointSettings' = ls.talkPointSettings
    /\ errorSoundBuffer' = ls.errorSoundBuffer
    /\ tonalTalkpointBuffer' = ls.tonalTalkpointBuffer
    /\ enableErrorDetection' = ls.enableErrorDetection
    /\ debounced' = ls.debounced
    /\ loading' = ls.loading
    /\ messages' = ls.messages
    /\ lastOp' = Op(name, <<>>, <<>>, buffer, 0, NoBreakpoint)
    /\ message' = NoMessage
    /\ UNCHANGED <<clock, arrivals, processed, diagnostics, previousDiagnostics, played>>
    /\ UNCHANGED <<talkPoints, breakpointsLoaded, workspaceState, breakpoints, nextId,
                   flows, before, committed, emitted, removeRequested, joined, joins,
                   plainHosts, toggles>>
    /\ UNCHANGED <<trackerVars, storage, disposed, menuVars>>

\* activate(): initialize creates the output channel and calls loadSettings,
\* whose await gets what the debounced function returned; then the commands,
\* the diagnostics listener, the configuration listener, the breakpoints
\* listener and the tracker factory are registered
Activate ==
    /\ ~activated
    /\ LET r == CallLoadSettings
       IN /\ loadSettingsDebounced' = r.closure
          /\ SettingsFrame([r.ls EXCEPT !.debounced = DebounceIdle], "activate", "")
    /\ activated' = TRUE
    /\ UNCHANGED configuration

\* the user edits the sound settings: onDidChangeConfiguration fires with
\* affectsConfiguration('codeTalk') and loadSettings is called
ConfigurationChanged ==
    /\ activated
    /\ \E c \in Configurations \ {configuration} :
          /\ configuration' = c
          /\ LET r == CallLoadSettings
             IN /\ loadSettingsDebounced' = r.closure
                /\ SettingsFrame(r.ls, "configurationChanged", "")
    /\ UNCHANGED activated

\* the timer of the debounced loadSettings is due, or overdue: later runs
\* and, the last call being old enough, func runs up to its first await
LoadSettingsTimerFired ==
    /\ loadSettingsDebounced.timeout # 0
    /\ clock >= loadSettingsDebounced.timeout
    /\ Len(loading) < MaxLoads
    /\ LET r == Later(loadSettingsDebounced, clock, SettingsWait, LoadSettingsImmediate)
       IN /\ loadSettingsDebounced' = r.closure
          /\ IF r.ran = <<>> THEN SettingsFrame(Settings, "later", "")
             ELSE SettingsFrame(LoadSettings(Settings, configuration), "loadSettings", "")
    /\ UNCHANGED <<configuration, activated>>

\* load(...) of a suspended run of loadSettings is settled: the default
\* sound is loaded, a custom sound is loaded or its load is rejected
SoundLoadSettled ==
    /\ \E i \in 1..Len(loading) :
       \E ok \in IF loading[i].custom THEN BOOLEAN ELSE {TRUE} :
          SettingsFrame(LoadSettled([Settings EXCEPT !.loading = RemoveAt(@, i)],
                                    loading[i], ok),
                        IF ok THEN "loaded" ELSE "loadFailed", loading[i].buffer)
    /\ UNCHANGED <<configuration, loadSettingsDebounced, activated>>

\* the constructor has run in a workspace in which the extension runs for
\* the first time
SettingsSpecInit ==
    /\ FreshController
    /\ storage = AbsentStorage
    /\ disposed = "no"
    /\ DiagnosticsInit(FALSE)
    /\ MenuInit
    /\ SettingsInit

SettingsNext ==
    \/ Activate
    \/ ConfigurationChanged
    \/ LoadSettingsTimerFired
    \/ SoundLoadSettled
    \/ Tick

SettingsSpec == SettingsSpecInit /\ [][SettingsNext]_vars

\* ------------------------------------------- a stop soon after activation
\* a Tonal talkpoint that stops the thread
TonalStop ==
    [type |-> "Tonal", sound |-> "Default", text |-> "undefined",
     expression |-> "undefined", shouldContinue |-> FALSE]

\* the constructor has run in a workspace in which an earlier session saved
\* a Tonal talkpoint
ActivationInit ==
    /\ workspaceState = <<[key |-> 1, value |-> MakeTalkpoint(TonalStop, "/a.py", 0, 1)]>>
    /\ talkPoints = workspaceState
    /\ breakpointsLoaded = FALSE
    /\ breakpoints = <<>>
    /\ nextId = MaxStale + 1
    /\ flows = <<>>
    /\ lastOp = Op("init", <<>>, <<>>, "", 0, NoBreakpoint)
    /\ committed = {}
    /\ messages = <<>>
    /\ emitted = 0
    /\ removeRequested = <<>>
    /\ joined = FALSE
    /\ joins = 0
    /\ plainHosts = {}
    /\ toggles = FreshToggles(talkPoints, flows)
    /\ before = Snapshot
    /\ TrackerInit
    /\ storage = StorageWritten(workspaceState)
    /\ disposed = "no"
    /\ DiagnosticsInit(FALSE)
    /\ MenuInit
    /\ SettingsInit

\* the host reports the breakpoint it restored in /a.py: the first
\* onDidChangeBreakpoints after activation
BreakpointsRestored ==
    /\ ~breakpointsLoaded
    /\ BreakpointsAdded
    /\ Len(lastOp'.added) = 1
    /\ lastOp'.added[1].path = "/a.py"

ActivationNext ==
    \/ Activate
    \/ LoadSettingsTimerFired
    \/ SoundLoadSettled
    \/ Tick
    \/ BreakpointsRestored
    \/ OnDidSendMessage
    \/ StackTraceResponse
    \/ StackTraceRejected
    \/ DebugProtocolBreakpointResponse

ActivationSpec == ActivationInit /\ [][ActivationNext]_vars

\* ------------------------------------------- talkpoint creation menu
\* what the steps of the menu leave alone
MenuFrame ==
    /\ message' = NoMessage
    /\ UNCHANGED <<controllerVars, trackerVars, storage, disposed, diagnosticsVars,
                   settingsVars>>

\* createTalkpoint calls showTalkpointCreationSteps: collectInputs starts a
\* MultiStepInput with an empty state, whose first step shows the type prompt
ShowTalkpointCreationSteps ==
    /\ \E i \in 1..MaxFlows :
          /\ multiStepInputs[i].pc = "idle"
          /\ \A j \in 1..(i - 1) : multiStepInputs[j].pc # "idle"
          /\ multiStepInputs' =
                [multiStepInputs EXCEPT ![i] =
                    StepThrough([NoMultiStepInput EXCEPT !.pc = "showing",
                                                         !.lastEvent = "show"],
                                "showTalkpointTypeQuickPick")]
    /\ MenuFrame

\* onDidChangeSelection of a quick pick: the user picks one of its items
DidChangeSelection ==
    /\ \E i \in 1..MaxFlows :
          LET in == multiStepInputs[i]
          IN /\ in.pc = "showing"
             /\ in.current \in QuickPicks
             /\ \E item \in Items(in.current) :
                   multiStepInputs' =
                     [multiStepInputs EXCEPT ![i] =
                         Step([in EXCEPT !.lastEvent = "selection"], Resolve(item))]
    /\ MenuFrame

\* the user edits the value of an input box
DidChangeValue ==
    /\ \E i \in 1..MaxFlows, text \in Typed :
          LET in == multiStepInputs[i]
          IN /\ in.pc = "showing"
             /\ in.current \in InputBoxes
             /\ text # in.value
             /\ multiStepInputs' =
                   [multiStepInputs EXCEPT ![i] =
                       [in EXCEPT !.value = text, !.lastEvent = "value"]]
    /\ MenuFrame

\* onDidAccept of an input box: the value is resolved when validate finds
\* no fault with it
DidAccept ==
    /\ \E i \in 1..MaxFlows :
          LET in == multiStepInputs[i]
          IN /\ in.pc = "showing"
             /\ in.current \in InputBoxes
             /\ multiStepInputs' =
                   [multiStepInputs EXCEPT ![i] =
                       IF Validate(in.value) = "undefined"
                       THEN Step([in EXCEPT !.lastEvent = "accept"], Resolve(in.value))
                       ELSE [in EXCEPT !.lastEvent = "refused"]]
    /\ MenuFrame

\* onDidTriggerButton with the Back button: reject(InputFlowAction.back)
DidTriggerButton ==
    /\ \E i \in 1..MaxFlows :
          LET in == multiStepInputs[i]
          IN /\ in.pc = "showing"
             /\ "Back" \in Buttons(in)
             /\ multiStepInputs' =
                   [multiStepInputs EXCEPT ![i] =
                       Step([in EXCEPT !.lastEvent = "back"], Reject("back"))]
    /\ MenuFrame

\* onDidHide (Escape, loss of focus, another quick input shown):
\* shouldResume answers false, reject(InputFlowAction.cancel)
DidHide ==
    /\ \E i \in 1..MaxFlows :
          LET in == multiStepInputs[i]
          IN /\ in.pc = "showing"
             /\ multiStepInputs' =
                   [multiStepInputs EXCEPT ![i] =
                       Step([in EXCEPT !.lastEvent = "hide"], Reject("cancel"))]
    /\ MenuFrame

\* the add-talkpoint command was invoked on lines without a talkpoint
MenuSpecInit ==
    /\ FreshController
    /\ HostInit

MenuNext ==
    \/ ShowTalkpointCreationSteps
    \/ DidChangeSelection
    \/ DidChangeValue
    \/ DidAccept
    \/ DidTriggerButton
    \/ DidHide

MenuSpec == MenuSpecInit /\ [][MenuNext]_vars

\* =============================================================== claims
LocationsOf(bps) == {FileLineOfBreakpoint(bps[i]) : i \in 1..Len(bps)}

\* the breakpoints a notification of the last turn carried as e.added: those
\* of the external notification, or the breakpoint createTalkpoint registered
LoadedSet ==
    IF lastOp.name = "commit"
    THEN IF lastOp.breakpoint.id \in BreakpointIds(before.breakpoints)
         THEN <<>> ELSE <<lastOp.breakpoint>>
    ELSE lastOp.added

\* the number a "Removed <n> talkpoints from workspace." message reports
ReportedCount == messages[Len(messages)].n

RemoveAllOnTalkpoints == lastOp.name = "removeAll" /\ before.talkPoints # <<>>

\* C1: add-talkpoint invocations completed one after the other on one
\* (uri, line), starting without talkpoint there and with no other breakpoint
\* change in between, leave exactly one talkpoint at the location after an odd
\* number of invocations, keyed by the live breakpoint of the line, and none
\* after an even number.
C1_ToggleParity ==
    \A loc \in Locations :
        toggles[loc] >= 0 =>
            /\ Cardinality(TalkpointsAt(talkPoints, loc)) = toggles[loc] % 2
            /\ \A i \in TalkpointsAt(talkPoints, loc) :
                   /\ talkPoints[i].key \in
                        BreakpointIds(ExistingBreakpoints(breakpoints, loc[1], loc[2]))
                   /\ \A j \in 1..Len(talkPoints) : talkPoints[j].key = talkPoints[i].key => j = i

C1_Witness ==
    \E loc \in Locations :
        /\ toggles[loc] = 3
        /\ lastOp.name = "commit"
        /\ <<lastOp.path, lastOp.line>> = loc

\* C2 (as claimed): after the join every loaded breakpoint b located where the
\* Store held a talkpoint T maps to T with breakpointId = b.
C2_JoinRekeysEveryTalkpoint ==
    (joined /\ lastOp.name = "breakpointsChanged") =>
        \A i \in 1..Len(before.talkPoints), j \in 1..Len(lastOp.added) :
            FileLineOfTalkpoint(before.talkPoints[i].value) = FileLineOfBreakpoint(lastOp.added[j])
            => /\ MapHas(talkPoints, lastOp.added[j].id)
               /\ MapValue(talkPoints, lastOp.added[j].id) =
                     [before.talkPoints[i].value EXCEPT !.breakpointId = lastOp.added[j].id]

\* C3: a talkpoint located where no loaded breakpoint is, is in the Store
\* under no key after the join.
C3_JoinDropsUnmatched ==
    joined =>
        \A i \in 1..Len(before.talkPoints) :
            LET t == before.talkPoints[i]
            IN FileLineOfTalkpoint(t.value) \notin LocationsOf(LoadedSet)
               => /\ ~MapHas(talkPoints, t.key)
                  /\ TalkpointsAt(talkPoints, FileLineOfTalkpoint(t.value)) = {}
                  /\ \A k \in 1..Len(talkPoints) : talkPoints[k].value # t.value

C3_Witness ==
    /\ joined
    /\ lastOp.name = "breakpointsChanged"
    /\ talkPoints # <<>>
    /\ \E i \in 1..Len(before.talkPoints) :
           FileLineOfTalkpoint(before.talkPoints[i].value) \notin LocationsOf(lastOp.added)

\* C4: once the join has run, a notification of added breakpoints leaves the
\* Store exactly as it was.
C4_SecondLoadIsNoOp ==
    (before.joins >= 1 /\ lastOp.name = "breakpointsChanged" /\ lastOp.added # <<>>) =>
        /\ talkPoints = before.talkPoints
        /\ ~joined

C4_Witness ==
    /\ before.joins >= 1
    /\ lastOp.name = "breakpointsChanged"
    /\ talkPoints # <<>>
    /\ \E j \in 1..Len(lastOp.added) :
           TalkpointsAt(talkPoints, FileLineOfBreakpoint(lastOp.added[j])) # {}

\* C5: the join runs at most once, in the turn of the first notification
\* that carries added breakpoints and in no other; the guard is true exactly
\* from then on.
C5_JoinOnceAtFirstLoad ==
    /\ joins <= 1
    /\ breakpointsLoaded <=> joins = 1
    /\ before.breakpointsLoaded => breakpointsLoaded
    /\ joined <=> (~before.breakpointsLoaded /\ LoadedSet # <<>>)
    /\ joined => (breakpointsLoaded /\ before.joins = 0)

C5_Witness ==
    /\ before.breakpointsLoaded
    /\ lastOp.name = "breakpointsChanged"
    /\ lastOp.added # <<>>
    /\ ~joined
    /\ joins = 1

\* C6: a talkpoint committed by add-talkpoint in this session, whose
\* breakpoint is live, is still in the Store, unchanged, after every
\* breakpoints-changed notification that does not remove its breakpoint.
C6_CommittedSurvivesNotifications ==
    /\ lastOp.name = "breakpointsChanged" =>
           \A id \in before.committed :
               id \in BreakpointIds(breakpoints) =>
                   /\ MapHas(talkPoints, id)
                   /\ MapValue(talkPoints, id) = MapValue(before.talkPoints, id)
    /\ lastOp.name = "commit" =>
           /\ MapHas(talkPoints, lastOp.breakpoint.id)
           /\ \A id \in before.committed \ {lastOp.breakpoint.id} :
                  /\ MapHas(talkPoints, id)
                  /\ MapValue(talkPoints, id) = MapValue(before.talkPoints, id)

C6_Witness ==
    /\ lastOp.name = "breakpointsChanged"
    /\ lastOp.added # <<>>
    /\ before.committed # {}
    /\ before.committed \subseteq MapKeys(talkPoints)

\* C7: after a notification of removed breakpoints R no identity of R is a
\* key of the Store and the entries under the other keys are as before.
C7_RemovedBreakpointsLoseTalkpoints ==
    /\ (lastOp.name = "breakpointsChanged" /\ lastOp.removed # <<>>) =>
           /\ MapKeys(talkPoints) \cap BreakpointIds(lastOp.removed) = {}
           /\ talkPoints = SelectSeq(before.talkPoints,
                                     LAMBDA e : e.key \notin BreakpointIds(lastOp.removed))
    /\ lastOp.name = "toggleOff" =>
           /\ ~MapHas(talkPoints, lastOp.breakpoint.id)
           /\ talkPoints = SelectSeq(before.talkPoints,
                                     LAMBDA e : e.key # lastOp.breakpoint.id)

C7_Witness ==
    /\ lastOp.name = "breakpointsChanged"
    /\ Len(lastOp.removed) = 2
    /\ BreakpointIds(lastOp.removed) \subseteq MapKeys(before.talkPoints)

\* C8: removeAllTalkpoints on an empty Store shows "no talkpoints registered",
\* emits no signal, calls no breakpoint removal and changes neither the
\* Store, nor the live breakpoints, nor the persisted sequence.
C8_RemoveAllOnEmptyStore ==
    (lastOp.name = "removeAll" /\ before.talkPoints = <<>>) =>
        /\ messages = <<Msg("info", "There are no talkpoints registered", 0)>>
        /\ emitted = 0
        /\ removeRequested = <<>>
        /\ talkPoints = before.talkPoints
        /\ breakpoints = before.breakpoints
        /\ workspaceState = before.workspaceState

C8_Witness ==
    /\ lastOp.name = "removeAll"
    /\ before.talkPoints = <<>>
    /\ breakpoints # <<>>

\* C9: removeAllTalkpoints on a non-empty Store asks for the removal of
\* exactly the live breakpoints whose id is a Store key, the other live
\* breakpoints stay, and the Store is empty afterwards.
C9_RemoveAllRemovesTalkpointBreakpoints ==
    RemoveAllOnTalkpoints =>
        /\ removeRequested =
              << SelectSeq(before.breakpoints,
                           LAMBDA b : MapHas(before.talkPoints, b.id)) >>
        /\ breakpoints = SelectSeq(before.breakpoints,
                                   LAMBDA b : ~MapHas(before.talkPoints, b.id))
        /\ talkPoints = <<>>

C9_Witness ==
    /\ RemoveAllOnTalkpoints
    /\ breakpoints # <<>>
    /\ Len(breakpoints) < Len(before.breakpoints)

\* C10 (as claimed): the reported number is the number of talkpoints removed
\* from the Store and the number of breakpoints removed from the live set.
C10_CountIsTalkpointsAndBreakpoints ==
    RemoveAllOnTalkpoints =>
        /\ ReportedCount = Len(before.talkPoints) - Len(talkPoints)
        /\ ReportedCount = Len(before.breakpoints) - Len(breakpoints)

\* C10 (amended): the reported number is the number of talkpoints removed
\* from the Store; it is the number of breakpoints removed from the live set
\* whenever every Store key was the id of a live breakpoint.
C10_CountIsTalkpoints ==
    RemoveAllOnTalkpoints =>
        /\ messages[Len(messages)].text = "Removed talkpoints from workspace"
        /\ ReportedCount = Len(before.talkPoints) - Len(talkPoints)
        /\ MapKeys(before.talkPoints) \subseteq BreakpointIds(before.breakpoints)
           => ReportedCount = Len(before.breakpoints) - Len(breakpoints)

C10_Witness ==
    /\ RemoveAllOnTalkpoints
    /\ MapKeys(before.talkPoints) \subseteq BreakpointIds(before.breakpoints)
    /\ ReportedCount = 2
    /\ Len(before.breakpoints) - Len(breakpoints) = 2

\* C11: a creation flow dismissed early shows the warning and does nothing
\* else: the Store, the live breakpoints and the persisted sequence are as
\* before, no signal is emitted, no breakpoint removal is asked for, and a
\* newly constructed candidate breakpoint is not in the live set.
C11_DismissIsNoOp ==
    lastOp.name = "dismiss" =>
        /\ messages = <<Msg("warning", "Dismissed talkpoint creation", 0)>>
        /\ talkPoints = before.talkPoints
        /\ breakpoints = before.breakpoints
        /\ workspaceState = before.workspaceState
        /\ emitted = 0
        /\ removeRequested = <<>>
        /\ ~MapHas(talkPoints, lastOp.breakpoint.id)
              \/ MapHas(before.talkPoints, lastOp.breakpoint.id)
        /\ lastOp.breakpoint.id \notin BreakpointIds(before.breakpoints)
              => lastOp.breakpoint.id \notin BreakpointIds(breakpoints)

C11_Witness ==
    /\ lastOp.name = "dismiss"
    /\ lastOp.breakpoint.id \notin BreakpointIds(before.breakpoints)
    /\ talkPoints # <<>>
    /\ breakpoints # <<>>

\* C12 (as claimed): a toggle-off removes the talkpoint, and a breakpoint
\* that was live as a plain breakpoint before its talkpoint was added is
\* still live after the toggle-off.
C12_PlainBreakpointSurvivesToggleOff ==
    lastOp.name = "toggleOff" =>
        /\ ~MapHas(talkPoints, lastOp.breakpoint.id)
        /\ lastOp.breakpoint.id \in before.plainHosts
              => lastOp.breakpoint.id \in BreakpointIds(breakpoints)

\* C12 (amended): a toggle-off removes the talkpoint from the Store and asks
\* for the removal of its breakpoint in every case: the breakpoint is not
\* live afterwards, whether or not it was a plain breakpoint before the
\* talkpoint was added; the other live breakpoints stay.
C12_ToggleOffRemovesBreakpoint ==
    lastOp.name = "toggleOff" =>
        /\ MapHas(before.talkPoints, lastOp.breakpoint.id)
        /\ ~MapHas(talkPoints, lastOp.breakpoint.id)
        /\ removeRequested = << <<lastOp.breakpoint>> >>
        /\ lastOp.breakpoint.id \notin BreakpointIds(breakpoints)
        /\ breakpoints = SelectSeq(before.breakpoints,
                                   LAMBDA b : b.id # lastOp.breakpoint.id)

C12_Witness ==
    /\ lastOp.name = "toggleOff"
    /\ lastOp.breakpoint.id \in before.plainHosts
    /\ breakpoints # <<>>

\* C13: when the creation flow completes, the Store maps the breakpoint's
\* identity to a talkpoint with the type, payload and shouldContinue chosen
\* in the flow, the uri and line of the invocation and breakpointId = that
\* identity; the breakpoint is live and the signal has been emitted.
C13_CommitStoresChosenTalkpoint ==
    lastOp.name = "commit" =>
        /\ MapHas(talkPoints, lastOp.breakpoint.id)
        /\ MapValue(talkPoints, lastOp.breakpoint.id) =
              [type |-> lastOp.state.type, text |-> lastOp.state.text,
               expression |-> lastOp.state.expression, sound |-> lastOp.state.sound,
               position |-> lastOp.line, uri |-> lastOp.path,
               breakpointId |-> lastOp.breakpoint.id,
               shouldContinue |-> lastOp.state.shouldContinue]
        /\ lastOp.breakpoint.id \in BreakpointIds(breakpoints)
        /\ FileLineOfBreakpoint(lastOp.breakpoint) = <<lastOp.path, lastOp.line>>
        /\ emitted >= 1
        /\ workspaceState = talkPoints

C13_Witness ==
    /\ lastOp.name = "commit"
    /\ lastOp.state.shouldContinue
    /\ lastOp.breakpoint.id \notin BreakpointIds(before.breakpoints)
    /\ ~MapHas(before.talkPoints, lastOp.breakpoint.id)
    /\ Len(talkPoints) = 2

\* a talkpoint apart from the identity it is linked to
Unlinked(t) == [t EXCEPT !.breakpointId = 0]

\* the persisted entries of the turn's start whose key was no live breakpoint
InertPersisted ==
    {i \in 1..Len(before.workspaceState) :
        before.workspaceState[i].key \notin BreakpointIds(before.breakpoints)}

UserRemovedNothing ==
    /\ lastOp.name \notin {"removeAll", "toggleOff"}
    /\ lastOp.removed = <<>>

LastTalkpointAt(loc) ==
    before.talkPoints[CHOOSE i \in TalkpointsAt(before.talkPoints, loc) :
                          \A j \in TalkpointsAt(before.talkPoints, loc) : j <= i].value

C25_SavedAfterEveryMutation ==
    /\ talkPoints # before.talkPoints => emitted >= 1
    /\ workspaceState = talkPoints

C25_Witness ==
    /\ lastOp.name = "breakpointsChanged"
    /\ lastOp.removed # <<>>
    /\ before.joins = 1
    /\ talkPoints # before.talkPoints
    /\ talkPoints # <<>>

\* --------------------------------------------- claims about the tracker
\* positions of session with an entry of one of the kinds for breakpoint id
EntriesOf(kinds, id) ==
    {k \in 1..Len(session) : session[k].kind \in kinds /\ session[k].id = id}

Feedback == {"play", "text", "evaluate", "expression", "invalid", "error"}

\* C14: a message that is not an event named "stopped" with reason
\* "breakpoint" or "step" makes the tracker issue no request and give no
\* feedback: the requests and feedback of the session, the pending evaluate
\* requests and the position of the handler under way are as before.
C14_OnlyStoppedEventsAct ==
    [][\A m \in DebugMessages :
          (/\ message' = m
           /\ ~(/\ m.type = "event"
                /\ m.event = "stopped"
                /\ m.reason \in {"breakpoint", "step"}))
          => /\ session' = session
             /\ evaluating' = evaluating
             /\ pc' = pc
             /\ stopped' = stopped
             /\ matchedBreakpoints' = matchedBreakpoints]_vars

C14_Witness ==
    /\ message.type = "event"
    /\ message.event = "stopped"
    /\ message.reason = "exception"
    /\ pc = "dispatched"
    /\ session # <<>>
    /\ talkPoints # <<>>

\* C15: the matched breakpoints are exactly the breakpoints read from the
\* live set whose path is the file path of the frame's source path and whose
\* debug protocol breakpoint has the frame's line, in the order of the live
\* set; the line of the breakpoint's own location plays no part.
C15_MatchedByResolvedLine ==
    pc = "dispatched" =>
        /\ BreakpointIds(matchedBreakpoints) =
              { sourceBreakpoints[i].id : i \in
                  { j \in 1..Len(sourceBreakpoints) :
                      /\ sourceBreakpoints[j].path = UriFilePath(currentFrame.path)
                      /\ debugLines[j].status = "resolved"
                      /\ debugLines[j].line = currentFrame.line } }
        /\ Len(matchedBreakpoints) = Cardinality(BreakpointIds(matchedBreakpoints))
        /\ \A k \in 1..Len(matchedBreakpoints) :
              \E i \in 1..Len(sourceBreakpoints) : sourceBreakpoints[i] = matchedBreakpoints[k]

C15_Witness ==
    /\ pc = "dispatched"
    /\ Len(matchedBreakpoints) = 1
    /\ \E i, j \in 1..Len(sourceBreakpoints) :
          /\ sourceBreakpoints[i].path = sourceBreakpoints[j].path
          /\ sourceBreakpoints[i].line = currentFrame.line
          /\ debugLines[i].status = "resolved"
          /\ debugLines[i].line # currentFrame.line
          /\ sourceBreakpoints[j].line # currentFrame.line
          /\ debugLines[j] = Resolved(currentFrame.line)
          /\ matchedBreakpoints = <<sourceBreakpoints[j]>>

\* position of breakpoint id among the matched breakpoints
MatchedAt(id) == CHOOSE k \in 1..Len(matchedBreakpoints) : matchedBreakpoints[k].id = id

\* C16: the text of every matched Text talkpoint is announced, once, when
\* the matched breakpoints are dispatched, whatever becomes of the evaluate
\* request of an Expression talkpoint matched by the same event, before or
\* after it in the order of the breakpoints.
C16_TextAnnouncedDespiteFailedExpression ==
    pc = "dispatched" =>
        \A k \in 1..Len(dispatched) :
            dispatched[k].talkpoint.type = "Text" =>
                /\ Cardinality(EntriesOf({"text"}, dispatched[k].id)) = 1
                /\ \A e \in EntriesOf({"text"}, dispatched[k].id) :
                       session[e].arg = dispatched[k].talkpoint.text

C16_Witness ==
    /\ pc = "dispatched"
    /\ evaluating = <<>>
    /\ \E a, b \in 1..Len(dispatched) :
          /\ a < b
          /\ dispatched[a].talkpoint.type = "Expression"
          /\ EntriesOf({"invalid"}, dispatched[a].id) # {}
          /\ dispatched[b].talkpoint.type = "Text"
          /\ EntriesOf({"text"}, dispatched[b].id) # {}

\* C17 (as claimed): when the line resolution of one breakpoint is rejected,
\* every other read breakpoint whose path and resolved line match the frame
\* and that has a talkpoint gets its feedback.
C17_RejectionSkipsOnlyThatBreakpoint ==
    \A i, j \in 1..Len(debugLines) :
        (/\ pc \in {"aborted", "dispatched"}
         /\ debugLines[i] = Rejected
         /\ sourceBreakpoints[j].path = UriFilePath(currentFrame.path)
         /\ debugLines[j] = Resolved(currentFrame.line)
         /\ MapHas(talkPoints, sourceBreakpoints[j].id))
        => EntriesOf(Feedback, sourceBreakpoints[j].id) # {}

\* C18: when the handler of a stopped event has ended, exactly one continue
\* request, with the threadId of the event, has been issued for every matched
\* breakpoint whose talkpoint has shouldContinue, and none for a matched
\* breakpoint whose talkpoint has not, nor for any other breakpoint.
C18_OneContinuePerContinuingTalkpoint ==
    (pc = "dispatched" /\ evaluating = <<>>) =>
        /\ \A k \in 1..Len(dispatched) :
              /\ Cardinality(EntriesOf({"continue"}, dispatched[k].id)) =
                    (IF dispatched[k].talkpoint.shouldContinue THEN 1 ELSE 0)
              /\ \A e \in EntriesOf({"continue"}, dispatched[k].id) :
                    session[e].threadId = stopped.threadId
        /\ \A e \in 1..Len(session) :
              session[e].kind = "continue" =>
                  \E k \in 1..Len(dispatched) : dispatched[k].id = session[e].id

C18_Witness ==
    /\ pc = "dispatched"
    /\ evaluating = <<>>
    /\ stopped.threadId = 2
    /\ \E a, b \in 1..Len(dispatched) :
          /\ dispatched[a].talkpoint.type = "Expression"
          /\ dispatched[a].talkpoint.shouldContinue
          /\ EntriesOf({"continue"}, dispatched[a].id) # {}
          /\ ~dispatched[b].talkpoint.shouldContinue

\* C19 (as claimed): when a stopped event matches a talkpoint whose
\* shouldContinue is false, no continue request is issued for that event,
\* also when other talkpoints are matched by it.
C19_StaysPausedWhenOneTalkpointStops ==
    (/\ pc = "dispatched"
     /\ \E k \in 1..Len(dispatched) : ~dispatched[k].talkpoint.shouldContinue)
    => \A e \in 1..Len(session) : session[e].kind # "continue"

\* C20: every continue request comes after the feedback of its talkpoint
\* was started: the tone played, the text announced or the evaluate request
\* issued.
C20_ContinueAfterFeedbackStarted ==
    \A e \in 1..Len(session) :
        session[e].kind = "continue" =>
            \E f \in 1..(e - 1) :
                /\ session[f].id = session[e].id
                /\ session[f].kind \in {"play", "text", "evaluate"}

C20_Witness ==
    /\ pc = "dispatched"
    /\ \E a, b \in 1..Len(dispatched) :
          /\ dispatched[a].talkpoint.type = "Tonal"
          /\ dispatched[b].talkpoint.type = "Expression"
          /\ EntriesOf({"continue"}, dispatched[a].id) # {}
          /\ EntriesOf({"continue"}, dispatched[b].id) # {}

\* C21: while the stackTrace request is unanswered no line resolution has
\* been asked for, and while the line resolution of a read breakpoint is
\* unanswered nothing is matched, no feedback is given and no continue or
\* evaluate request is issued, in whatever order the resolutions end.
C21_StackTraceThenWaitForAll ==
    /\ pc = "stackTrace" =>
          /\ sourceBreakpoints = <<>>
          /\ debugLines = <<>>
          /\ \A e \in 1..Len(session) : session[e].kind = "stackTrace"
    /\ (\E i \in 1..Len(debugLines) : debugLines[i] = Pending) =>
          /\ pc \in {"matching", "aborted"}
          /\ matchedBreakpoints = <<>>
          /\ dispatched = <<>>
          /\ evaluating = <<>>
          /\ \A e \in 1..Len(session) : session[e].kind = "stackTrace"
    /\ pc = "dispatched" =>
          /\ Len(debugLines) = Len(sourceBreakpoints)
          /\ \A i \in 1..Len(debugLines) : debugLines[i] # Pending

C21_Witness ==
    /\ pc = "matching"
    /\ Len(debugLines) = 2
    /\ debugLines[1] = Pending
    /\ debugLines[2] = Resolved(currentFrame.line)
    /\ sourceBreakpoints[2].path = UriFilePath(currentFrame.path)
    /\ MapHas(talkPoints, sourceBreakpoints[2].id)

\* the evaluate requests not answered yet are those of these breakpoints
Unanswered == {evaluating[i].id : i \in 1..Len(evaluating)}

\* C27: the evaluate request of a matched Expression talkpoint ends in one
\* announcement: the result when it was answered, the invalid-expression
\* message with the error when it failed, never both; after the
\* invalid-expression message the callback goes on as after a result (the
\* handler has not failed, the continue request is issued when configured).
C27_FailedEvaluationAnnouncedInvalid ==
    \A k \in 1..Len(dispatched) :
        dispatched[k].talkpoint.type = "Expression" =>
            LET id == dispatched[k].id
                results == EntriesOf({"expression"}, id)
                invalids == EntriesOf({"invalid"}, id)
            IN /\ Cardinality(results) + Cardinality(invalids) =
                     (IF id \in Unanswered THEN 0 ELSE 1)
               /\ \A e \in results :
                     \E o \in EvaluateOutcomes : o.ok /\ session[e].arg = o.text
               /\ \A e \in invalids :
                     /\ \E o \in EvaluateOutcomes : ~o.ok /\ session[e].arg = o.text
                     /\ pc = "dispatched"
                     /\ dispatched[k].talkpoint.shouldContinue =>
                           \E c \in EntriesOf({"continue"}, id) : c > e

C27_Witness ==
    /\ evaluating = <<>>
    /\ \E k \in 1..Len(dispatched) :
          /\ dispatched[k].talkpoint.type = "Expression"
          /\ dispatched[k].talkpoint.shouldContinue
          /\ EntriesOf({"invalid"}, dispatched[k].id) # {}
          /\ EntriesOf({"expression"}, dispatched[k].id) = {}
          /\ EntriesOf({"continue"}, dispatched[k].id) # {}

\* C26: the Map the constructor builds from what a completed save of Store S
\* left in the storage file has the keys of S and under each key a talkpoint
\* with the type, text, expression, sound, line, path, breakpointId and
\* shouldContinue S has there; from a storage file without the value it
\* builds the empty Map.
C26_SaveLoadRoundTrip ==
    lastOp.name = "load" =>
        IF storage.present
        THEN /\ Len(talkPoints) = Len(before.talkPoints)
             /\ MapKeys(talkPoints) = MapKeys(before.talkPoints)
             /\ \A k \in MapKeys(before.talkPoints) :
                   MapValue(talkPoints, k) = MapValue(before.talkPoints, k)
        ELSE talkPoints = <<>>

C26_Witness ==
    /\ lastOp.name = "load"
    /\ storage.present
    /\ Len(talkPoints) = 2
    /\ talkPoints[1].value.type = "Tonal"
    /\ talkPoints[1].value.breakpointId = talkPoints[2].key
    /\ talkPoints[2].value.type = "Expression"
    /\ ~talkPoints[2].value.shouldContinue
    /\ "text" \notin DOMAIN storage.json[2].value

KnownTypes == {"Tonal", "Text", "Expression"}

\* C28: when the matched breakpoints have been dispatched, a matched
\* talkpoint whose type is none of Tonal, Text, Expression, or is missing,
\* has got one error message and no tone, text, evaluate request or
\* expression announcement, and its continue request when configured; the
\* Text and Expression talkpoints matched by the same event, before or
\* after it, have got their announcement or their evaluate request.
C28_UnrecognizedTypeReported ==
    pc = "dispatched" =>
        \A k \in 1..Len(dispatched) :
            LET id == dispatched[k].id
                talkpoint == dispatched[k].talkpoint
            IN /\ talkpoint.type \notin KnownTypes =>
                     /\ Cardinality(EntriesOf({"error"}, id)) = 1
                     /\ EntriesOf(Feedback \ {"error"}, id) = {}
                     /\ Cardinality(EntriesOf({"continue"}, id)) =
                           (IF talkpoint.shouldContinue THEN 1 ELSE 0)
               /\ talkpoint.type = "Text" =>
                     /\ Cardinality(EntriesOf({"text"}, id)) = 1
                     /\ EntriesOf({"error"}, id) = {}
               /\ talkpoint.type = "Expression" =>
                     /\ Cardinality(EntriesOf({"evaluate"}, id)) = 1
                     /\ EntriesOf({"error"}, id) = {}

C28_Witness ==
    /\ pc = "dispatched"
    /\ Len(dispatched) = 2
    /\ dispatched[1].talkpoint.type = "undefined"
    /\ EntriesOf({"error"}, dispatched[1].id) # {}
    /\ dispatched[2].talkpoint.type = "Text"
    /\ EntriesOf({"text"}, dispatched[2].id) # {}

\* C29 (as claimed): after deactivate has come between a stopped event and
\* the end of one of its round trips, the handler of that event makes no
\* call on the closed output channel (so none is ignored and none throws).
C29_NoWriteToDisposedChannel ==
    \A e, f \in 1..Len(session) :
        (e < f /\ session[e].kind = "deactivate") => session[f].kind # "closed"

Acts == Feedback \cup {"continue"}

BurstStarts ==
    {i \in 1..Len(arrivals) : i = 1 \/ arrivals[i].at - arrivals[i - 1].at >= Interval}

\* C30 (as claimed): the event that begins a burst has been processed when
\* it has arrived, and no other event of a burst is processed.
C30_FirstEventOfBurstProcessedOnArrival ==
    /\ \A i \in BurstStarts :
          \E p \in 1..Len(processed) :
              processed[p].event = i /\ processed[p].at = arrivals[i].at
    /\ \A p \in 1..Len(processed) : processed[p].event \in BurstStarts

\* C30 (amended): the debounce is trailing-edge.  No event is processed
\* before an interval has passed since it arrived; an event is processed at
\* most once and only when no event arrived after it before the listener
\* ran, so of a burst only the last event is processed; and when no timer is
\* pending the last event that arrived has been processed.
C30_LastEventOfBurstProcessedAfterInterval ==
    /\ \A p \in 1..Len(processed) :
          /\ processed[p].event \in 1..Len(arrivals)
          /\ processed[p].at >= arrivals[processed[p].event].at + Interval
          /\ \A j \in (processed[p].event + 1)..Len(arrivals) :
                arrivals[j].at >= processed[p].at
          /\ \A q \in 1..Len(processed) :
                p < q => processed[p].event < processed[q].event
    /\ (debounced.timeout = 0 /\ arrivals # <<>>) =>
          \E p \in 1..Len(processed) : processed[p].event = Len(arrivals)

C30_Witness ==
    /\ Len(arrivals) = 3
    /\ arrivals[2].at - arrivals[1].at < Interval
    /\ arrivals[3].at - arrivals[2].at < Interval
    /\ arrivals[3].at > arrivals[1].at
    /\ Len(processed) = 1
    /\ processed[1].event = 3
    /\ played = 1

\* ------------------------------------------- claims about the Store
\* C32 (as claimed): in every state every entry of the Store has the
\* breakpointId of its key, also after a join in which several loaded
\* breakpoints are on one line of one file.
C32_BreakpointIdIsKey ==
    \A i \in 1..Len(talkPoints) : talkPoints[i].value.breakpointId = talkPoints[i].key

\* C33 (as claimed): in every state no two entries of the Store have the same
\* uri.path and position.line.
C33_DurableIdentityUnique ==
    \A i, j \in 1..Len(talkPoints) :
        FileLineOfTalkpoint(talkPoints[i].value) = FileLineOfTalkpoint(talkPoints[j].value)
        => i = j

\* C34: once the join has run, at the end of every turn (the notifications
\* of the turn delivered) every key of the Store is the id of a live
\* breakpoint.
C34_StoreKeysAreLive ==
    breakpointsLoaded =>
        \A i \in 1..Len(talkPoints) :
            \E j \in 1..Len(breakpoints) : breakpoints[j].id = talkPoints[i].key

C34_Witness ==
    /\ breakpointsLoaded
    /\ lastOp.name = "breakpointsChanged"
    /\ lastOp.removed # <<>>
    /\ Len(talkPoints) < Len(before.talkPoints)
    /\ talkPoints # <<>>

\* ------------------------------------- more claims about the tracker
\* C36: for every matched talkpoint with shouldContinue whose evaluate
\* request failed or whose type the switch does not know, the continue
\* request for the thread of the stopped event is issued after the failure
\* was reported.
C36_ContinueDespiteFailedFeedback ==
    \A k \in 1..Len(dispatched) :
        dispatched[k].talkpoint.shouldContinue =>
            \A f \in EntriesOf({"invalid", "error"}, dispatched[k].id) :
                \E e \in EntriesOf({"continue"}, dispatched[k].id) :
                    /\ e > f
                    /\ session[e].threadId = stopped.threadId

C36_Witness ==
    /\ pc = "dispatched"
    /\ evaluating = <<>>
    /\ \E a, b \in 1..Len(dispatched) :
          /\ dispatched[a].talkpoint.type = "Expression"
          /\ dispatched[a].talkpoint.shouldContinue
          /\ EntriesOf({"invalid"}, dispatched[a].id) # {}
          /\ EntriesOf({"continue"}, dispatched[a].id) # {}
          /\ dispatched[b].talkpoint.type \notin {"Tonal", "Text", "Expression"}
          /\ dispatched[b].talkpoint.shouldContinue
          /\ EntriesOf({"error"}, dispatched[b].id) # {}
          /\ EntriesOf({"continue"}, dispatched[b].id) # {}

\* C37 (as claimed): for one stopped event at most one continue request is
\* issued for the stopped thread, however many matched talkpoints have
\* shouldContinue.
C37_AtMostOneContinuePerStoppedEvent ==
    Cardinality({e \in 1..Len(session) :
                    /\ session[e].kind = "continue"
                    /\ session[e].threadId = stopped.threadId}) <= 1

\* the requests and feedback a step adds to those of the stopped event
NewEntries ==
    IF /\ Len(session') >= Len(session)
       /\ SubSeq(session', 1, Len(session)) = session
    THEN {session'[e] : e \in (Len(session) + 1)..Len(session')}
    ELSE {session'[e] : e \in 1..Len(session')}

\* a step of the tracker or of a callback it has suspended
TrackerStep ==
    \/ session' # session
    \/ pc' # pc
    \/ evaluating' # evaluating
    \/ debugLines' # debugLines
    \/ message' # NoMessage

\* C38 (as claimed): no feedback is given and no continue request issued for
\* a breakpoint whose talkpoint is not in the Store at that moment, whenever
\* during the handling of the stopped event it was removed; and the steps of
\* the tracker leave the Store as it is.
C38_RemovedTalkpointGivesNothing ==
    [][/\ \A x \in NewEntries :
              x.kind \in Feedback \cup {"continue"} => MapHas(talkPoints, x.id)
       /\ TrackerStep => /\ talkPoints' = talkPoints
                         /\ workspaceState' = workspaceState]_vars

\* C38 (amended): the Store is read when the matched breakpoints are
\* dispatched, after the stackTrace and line-resolution round trips: feedback
\* and continue requests are given then for breakpoints that have a
\* talkpoint in the Store at that moment only, so a talkpoint removed during
\* those round trips gives none.  The callback of an Expression talkpoint
\* keeps the talkpoint it read: when the talkpoint is removed while its
\* evaluate request is unanswered, the result is still announced and the
\* continue request still issued.  The steps of the tracker leave the Store
\* and what is saved of it as they are.
C38_StoreReadAtDispatch ==
    [][/\ pc' = "dispatched" /\ pc # "dispatched" =>
              /\ \A x \in NewEntries :
                     x.kind \in Feedback \cup {"continue"} => MapHas(talkPoints, x.id)
              /\ \A k \in 1..Len(matchedBreakpoints') :
                     ~MapHas(talkPoints, matchedBreakpoints'[k].id) =>
                         \A e \in 1..Len(session') :
                             session'[e].id # matchedBreakpoints'[k].id
       /\ pc' = pc =>
              \A x \in NewEntries :
                  x.kind \in Feedback \cup {"continue"} =>
                      /\ x.kind \in {"expression", "invalid", "continue"}
                      /\ \E i \in 1..Len(evaluating) :
                             /\ evaluating[i].id = x.id
                             /\ evaluating[i].talkpoint.type = "Expression"
                             /\ Len(evaluating') = Len(evaluating) - 1
       /\ TrackerStep => /\ talkPoints' = talkPoints
                         /\ workspaceState' = workspaceState
                         /\ storage' = storage]_vars

\* a matched breakpoint whose talkpoint the toggle removed, with the
\* breakpoint, after the live breakpoints were read and before the dispatch
C38_Witness ==
    /\ pc = "dispatched"
    /\ lastOp.name = "toggleOff"
    /\ \E k \in 1..Len(matchedBreakpoints) :
          LET b == matchedBreakpoints[k]
          IN /\ MapHas(before.talkPoints, b.id)
             /\ ~MapHas(talkPoints, b.id)
             /\ b.id \notin BreakpointIds(breakpoints)
             /\ EntriesOf(Feedback \cup {"continue"}, b.id) = {}
    /\ \E e \in 1..Len(session) : session[e].kind \in Feedback

\* ------------------------------------ claims about the creation menu
\* the object o has the property f
Has(o, f) == f \in DOMAIN o

\* the prompts a call has shown are those of its type, in order
PromptsInOrder(in) ==
    /\ Len(in.prompts) \in 1..3
    /\ in.prompts[1] = "showTalkpointTypeQuickPick"
    /\ Len(in.prompts) >= 2 =>
          /\ Has(in.state, "type")
          /\ in.prompts[2] =
                (CASE in.state.type = "Tonal" -> "showContinueQuickpick"
                   [] in.state.type = "Text" -> "showTextTalkpointInput"
                   [] in.state.type = "Expression" -> "showExpressionTalkpointInput")
          /\ in.state.type = "Tonal" =>
                /\ Len(in.prompts) = 2
                /\ Has(in.state, "sound") /\ in.state.sound = "Default"
                /\ ~Has(in.state, "text") /\ ~Has(in.state, "expression")
    /\ Len(in.prompts) = 3 =>
          /\ in.prompts[3] = "showContinueQuickpick"
          /\ in.state.type = "Text" =>
                Has(in.state, "text") /\ in.state.text # ""
          /\ in.state.type = "Expression" =>
                Has(in.state, "expression") /\ in.state.expression # ""

\* the state a call returned has a type, the payload of the type and the
\* behaviour
CompleteResult(state) ==
    /\ Has(state, "type")
    /\ state.type \in {"Tonal", "Text", "Expression"}
    /\ state.type = "Tonal" => Has(state, "sound") /\ state.sound = "Default"
    /\ state.type = "Text" => Has(state, "text") /\ state.text # ""
    /\ state.type = "Expression" =>
          Has(state, "expression") /\ state.expression # ""
    /\ Has(state, "shouldContinue")
    /\ state.shouldContinue \in BOOLEAN

\* C39: every call of the creation flow prompts for the type, then for the
\* payload (Text and Expression; Tonal has sound "Default" and no payload
\* prompt), then for the behaviour; the step in which a prompt is hidden or
\* rejected ends the flow with dismissedEarly = true and shows no prompt; and
\* a returned state without dismissedEarly has a type of the three, the
\* non-empty payload of the type and a boolean shouldContinue.
C39_PromptOrderDismissalAndResult ==
    [][\A i \in 1..MaxFlows :
          (/\ multiStepInputs'[i] # multiStepInputs[i]
           /\ multiStepInputs'[i].lastEvent \in {"hide", "back"})
          => /\ multiStepInputs'[i].pc = "returned"
             /\ multiStepInputs'[i].prompts = multiStepInputs[i].prompts
             /\ multiStepInputs'[i].current = "disposed"
             /\ multiStepInputs'[i].state =
                   SetProperty(multiStepInputs[i].state, "dismissedEarly", TRUE)]_vars
    /\ [](\A i \in 1..MaxFlows :
            LET in == multiStepInputs[i]
            IN in.pc # "idle" =>
                 /\ PromptsInOrder(in)
                 /\ Has(in.state, "dismissedEarly") =>
                       /\ in.state.dismissedEarly
                       /\ in.pc = "returned"
                       /\ in.lastEvent \in {"hide", "back"}
                       /\ ~Has(in.state, "shouldContinue")
                 /\ (in.pc = "returned" /\ ~Has(in.state, "dismissedEarly")) =>
                       CompleteResult(in.state))

\* one call returned an Expression talkpoint that continues, the other was
\* dismissed with the Back button at its last prompt
C39_Witness ==
    /\ multiStepInputs[1].pc = "returned"
    /\ multiStepInputs[1].prompts =
          <<"showTalkpointTypeQuickPick", "showExpressionTalkpointInput",
            "showContinueQuickpick">>
    /\ ~Has(multiStepInputs[1].state, "dismissedEarly")
    /\ multiStepInputs[1].state.expression = "x + 1"
    /\ multiStepInputs[1].state.shouldContinue
    /\ multiStepInputs[2].pc = "returned"
    /\ multiStepInputs[2].lastEvent = "back"
    /\ Len(multiStepInputs[2].prompts) = 3
    /\ Has(multiStepInputs[2].state, "dismissedEarly")
    /\ multiStepInputs[2].state.type = "Text"

\* ------------------------------------------- claims about the settings
\* the text of the error message of a sound category
FailedToLoad(buffer) ==
    IF buffer = "errorSoundBuffer"
    THEN "Failed to load custom sound for Error Detection"
    ELSE "Failed to load custom sound for Tonal Talkpoint"

\* the load of the tonal sound that a run begins after its error sound
TonalLoadOf(run) ==
    [buffer |-> "tonalTalkpointBuffer",
     custom |-> talkPointSettings.customBreakpointSound # "",
     path |-> IF talkPointSettings.customBreakpointSound # ""
              THEN talkPointSettings.customBreakpointSound
              ELSE DefaultErrorBeepSound,
     prev |-> run.prev]

\* the runs of loadSettings left suspended when the load of run i has
\* failed: a run that failed to load the error sound goes on to the tonal
\* sound when that setting differs from the one it began with
AfterFailure(i) ==
    LET run == loading[i]
        rest == RemoveAt(loading, i)
    IN IF /\ run.buffer = "errorSoundBuffer"
          /\ \/ ~run.prev.defined
             \/ run.prev.customBreakpointSound # talkPointSettings.customBreakpointSound
       THEN Append(rest, TonalLoadOf(run))
       ELSE rest

\* C31: in the step in which the load of a configured custom sound is
\* rejected, the rejection is caught: an error message naming the sound
\* category is shown, neither sound buffer changes (the buffer of the failing
\* category stays as it was, no default is installed), the settings read by
\* the run stay, and the run goes on: after a failed error sound the tonal
\* sound is loaded when its setting asks for it.
C31_FailedCustomSoundLeavesBuffer ==
    [][(lastOp'.name = "loadFailed" /\ loading' # loading) =>
          /\ messages' = <<Msg("error", FailedToLoad(lastOp'.path), 0)>>
          /\ errorSoundBuffer' = errorSoundBuffer
          /\ tonalTalkpointBuffer' = tonalTalkpointBuffer
          /\ errorSettings' = errorSettings
          /\ talkPointSettings' = talkPointSettings
          /\ \E i \in 1..Len(loading) :
                /\ loading[i].custom
                /\ loading[i].buffer = lastOp'.path
                /\ loading' = AfterFailure(i)]_vars

\* a custom error sound has just failed to load while no error sound was
\* loaded before: the message is shown, the buffer is still unset and the
\* run is loading the tonal sound
C31_Witness ==
    /\ lastOp.name = "loadFailed"
    /\ lastOp.path = "errorSoundBuffer"
    /\ messages = <<Msg("error", "Failed to load custom sound for Error Detection", 0)>>
    /\ errorSoundBuffer = "undefined"
    /\ errorSettings.customErrorSound = "custom.wav"
    /\ \E i \in 1..Len(loading) : loading[i].buffer = "tonalTalkpointBuffer"

\* C35: once activate has completed, the settings are loaded and the tonal
\* buffer holds a loaded sound (the configured or the default one), and every
\* Tonal talkpoint that fired played a loaded buffer.
C35_TonalBufferLoadedAfterActivate ==
    activated =>
        /\ errorSettings.defined
        /\ talkPointSettings.defined
        /\ tonalTalkpointBuffer \in {DefaultErrorBeepSound, "custom.wav"}
        /\ \A k \in 1..Len(session) :
              session[k].kind = "play" => session[k].arg # "undefined"

====
